---- MODULE Spec2Model ----
(***************************************************************************)
(* Diagnostic Evaluation Engine (src/diagnostic_utils.py) and the report   *)
(* context it writes to (src/test_report_context.py).                      *)
(*                                                                         *)
(* Python values are modelled as records [t, s, n]:                        *)
(*   t = "str"  : a string, s its characters (one-character strings)       *)
(*   t = "int"  : an integer n                                             *)
(*   t = "none" : None                                                     *)
(* A call that raises returns the record Raise.                            *)
(***************************************************************************)
EXTENDS Integers, Sequences, FiniteSets, TLC

VARIABLES pc, input, output, report

vars == <<pc, input, output, report>>

----------------------------------------------------------------------------
(* Python values and string primitives *)

PStr(s) == [t |-> "str", s |-> s, n |-> 0]

PInt(n) == [t |-> "int", s |-> <<>>, n |-> n]

PNone == [t |-> "none", s |-> <<>>, n |-> 0]

Raise == [t |-> "raise", s |-> <<>>, n |-> 0]

IsStr(v) == v.t = "str"

HexChars == <<"0", "1", "2", "3", "4", "5", "6", "7", "8", "9", "a", "b", "c", "d", "e", "f">>

Range(s) == {s[i] : i \in 1..Len(s)}

\* str.lower() on one character (the letters that occur in codes, statuses,
\* "any" and test names)
LowerChar(c) ==
    CASE c = "A" -> "a" [] c = "B" -> "b" [] c = "C" -> "c" [] c = "D" -> "d"
      [] c = "E" -> "e" [] c = "F" -> "f" [] c = "X" -> "x" [] c = "N" -> "n"
      [] c = "Y" -> "y" [] c = "T" -> "t" [] c = "P" -> "p" [] c = "I" -> "i"
      [] c = "R" -> "r" [] c = "S" -> "s" [] c = "O" -> "o" [] OTHER -> c

\* str.lower()
Lower(s) == [i \in 1..Len(s) |-> LowerChar(s[i])]

RECURSIVE LStrip(_)
LStrip(s) == IF s # <<>> /\ Head(s) = " " THEN LStrip(Tail(s)) ELSE s

RECURSIVE RStrip(_)
RStrip(s) == IF s # <<>> /\ s[Len(s)] = " " THEN RStrip(SubSeq(s, 1, Len(s) - 1)) ELSE s

\* str.strip()
Strip(s) == RStrip(LStrip(s))

\* str.startswith(p)
StartsWith(s, p) == Len(s) >= Len(p) /\ SubSeq(s, 1, Len(p)) = p

\* s[k:] (k >= 0)
From(s, k) == SubSeq(s, k + 1, Len(s))

\* "".join(ch for ch in s if ch in keep)
RECURSIVE Filter(_, _)
Filter(s, keep) ==
    IF s = <<>> THEN <<>>
    ELSE (IF Head(s) \in keep THEN <<Head(s)>> ELSE <<>>) \o Filter(Tail(s), keep)

\* s.replace("_", "")
DropUnderscores(s) == Filter(s, Range(s) \ {"_"})

\* whether the string starts with a sign character
HasSign(t) == t # <<>> /\ Head(t) \in {"+", "-"}

\* the string after its sign character, if it has one
Unsigned(t) == IF HasSign(t) THEN Tail(t) ELSE t

\* whether the string starts with a minus sign
Negative(t) == t # <<>> /\ Head(t) = "-"

\* zeros put in front of s up to width w
RECURSIVE ZeroPad(_, _)
ZeroPad(s, w) == IF Len(s) >= w THEN s ELSE ZeroPad(<<"0">> \o s, w)

\* str.zfill(w), and the zero padding of f"{n:0wx}": the zeros go after a sign
ZFill(s, w) ==
    IF HasSign(s) THEN <<Head(s)>> \o ZeroPad(Tail(s), w - 1) ELSE ZeroPad(s, w)

\* value of a digit character as int() reads it; 16 for a character that is no digit
CharVal(c) ==
    CASE c = "0" -> 0 [] c = "1" -> 1 [] c = "2" -> 2 [] c = "3" -> 3 [] c = "4" -> 4
      [] c = "5" -> 5 [] c = "6" -> 6 [] c = "7" -> 7 [] c = "8" -> 8 [] c = "9" -> 9
      [] c \in {"a", "A"} -> 10 [] c \in {"b", "B"} -> 11 [] c \in {"c", "C"} -> 12
      [] c \in {"d", "D"} -> 13 [] c \in {"e", "E"} -> 14 [] c \in {"f", "F"} -> 15
      [] OTHER -> 16

RECURSIVE DigitsVal(_, _, _)
DigitsVal(s, base, acc) ==
    IF s = <<>> THEN acc
    ELSE DigitsVal(Tail(s), base, acc * base + CharVal(Head(s)))

\* the underscores int() accepts: single, between digits (or right after a base prefix)
UnderscoresOk(d, afterPrefix) ==
    /\ d # <<>> => d[Len(d)] # "_"
    /\ d # <<>> /\ ~afterPrefix => d[1] # "_"
    /\ \A i \in 1..(Len(d) - 1) : ~(d[i] = "_" /\ d[i + 1] = "_")

\* the prefix int() accepts with base 16 or 2
BasePrefix(base) == IF base = 16 THEN <<"0", "x">> ELSE <<"0", "b">>

\* whether the stripped string t carries the prefix of the base (none with base 10)
HasBasePrefix(t, base) == base # 10 /\ StartsWith(Lower(t), BasePrefix(base))

\* the digit part int(t, base) reads of the stripped string t
IntBody(t, base) == IF HasBasePrefix(t, base) THEN From(t, 2) ELSE t

\* whether d is a digit part int() accepts
DigitsOk(d, afterPrefix, base) ==
    /\ DropUnderscores(d) # <<>>
    /\ UnderscoresOk(d, afterPrefix)
    /\ \A i \in 1..Len(d) : d[i] = "_" \/ CharVal(d[i]) < base

\* whether int(s, base) parses: an optional sign, the prefix of the base, digits
IntOk(s, base) ==
    DigitsOk(IntBody(Unsigned(Strip(s)), base), HasBasePrefix(Unsigned(Strip(s)), base), base)

\* mutant: int() drops the sign
SignedDropped(neg, n) == n

\* n with the sign int() read
Signed(neg, n) == IF neg THEN 0 - n ELSE n

\* int(s, base) for a string s: an int value, or Raise (ValueError)
PyInt(s, base) ==
    IF IntOk(s, base)
    THEN PInt(Signed(Negative(Strip(s)),
                     DigitsVal(DropUnderscores(IntBody(Unsigned(Strip(s)), base)), base, 0)))
    ELSE Raise

RECURSIVE ToBase(_, _)
ToBase(n, base) ==
    IF n < base THEN <<HexChars[n + 1]>>
    ELSE ToBase(n \div base, base) \o <<HexChars[(n % base) + 1]>>

\* the digits of n in the base, with a minus sign for a negative n
ToSignedBase(n, base) == IF n < 0 THEN <<"-">> \o ToBase(0 - n, base) ELSE ToBase(n, base)

\* f"{n:x}"
ToHex(n) == ToSignedBase(n, 16)

\* str(n)
ToDec(n) == ToSignedBase(n, 10)

\* str(v) for a str or an int
PyStr(v) == IF IsStr(v) THEN v.s ELSE ToDec(v.n)

ANY == <<"a", "n", "y">>

STATUS_ANY == PStr(ANY)

----------------------------------------------------------------------------
(* Value codec: _to_int, format_dtc_code, parse_to_int_or_hex *)

BitPatternChars == {"0", "1", "*"}

\* _to_int for a string, s = value.strip().lower()
ToIntOfStr(s) ==
    IF s = ANY THEN PNone
    ELSE IF Range(s) \subseteq BitPatternChars THEN PNone
    ELSE IF StartsWith(s, <<"0", "x">>) THEN PyInt(DropUnderscores(From(s, 2)), 16)
    ELSE IF StartsWith(s, <<"0", "b">>) THEN PyInt(DropUnderscores(From(s, 2)), 2)
    ELSE PyInt(s, 10)

\* _to_int: PInt(n), PNone, or Raise
_to_int(value) ==
    IF value.t = "none" THEN PNone
    ELSE IF IsStr(value) THEN ToIntOfStr(Lower(Strip(value.s)))
    ELSE PInt(value.n)

DefaultCodeWidth == 5

MaxDefaultWidthCode == 1048575

\* mutant: the digits are never padded
FormatCodeIntMinimal(n) ==
    IF n = Raise THEN Raise ELSE PStr(<<"0", "x">> \o ToHex(n.n))

\* f"0x{n:0{width}x}" with width = 5 if n <= 0xFFFFF else len(f"{n:x}"), for
\* the outcome n of int(): Raise goes through
FormatCodeInt(n) ==
    IF n = Raise THEN Raise
    ELSE PStr(<<"0", "x">> \o ZFill(ToHex(n.n), IF n.n <= MaxDefaultWidthCode
                                                THEN DefaultCodeWidth ELSE Len(ToHex(n.n))))

\* mutant: the digits of a "0x" string are padded to five
HexOrZeroPadded(hex_digits) == PStr(<<"0", "x">> \o ZFill(hex_digits, 5))

\* f"0x{hex_digits or '00'}"
HexOrZero(hex_digits) ==
    PStr(<<"0", "x">> \o (IF hex_digits = <<>> THEN <<"0", "0">> ELSE hex_digits))

\* try int(s) except ValueError: int(s, 16), dec the outcome of int(s)
DecimalElseHex(dec, s) == IF dec # Raise THEN dec ELSE PyInt(s, 16)

\* format_dtc_code for a string, s = value.strip().lower()
FormatCodeOfStr(s) ==
    IF s = ANY THEN STATUS_ANY
    ELSE IF StartsWith(s, <<"0", "x">>) THEN HexOrZero(Filter(From(s, 2), Range(HexChars)))
    ELSE FormatCodeInt(IF StartsWith(s, <<"0", "b">>)
                       THEN PyInt(DropUnderscores(From(s, 2)), 2)
                       ELSE DecimalElseHex(PyInt(s, 10), s))

\* format_dtc_code: PStr(..) or Raise
format_dtc_code(value) ==
    IF IsStr(value) THEN FormatCodeOfStr(Lower(Strip(value.s)))
    ELSE IF value.t = "int" THEN FormatCodeInt(value)
    ELSE Raise

\* f"0x{n:02x}"
FormatStatusInt(n) == PStr(<<"0", "x">> \o ZFill(ToHex(n), 2))

\* f"0x{n:02x}" for the outcome n of int(): Raise goes through
FormatStatusParsed(n) == IF n = Raise THEN Raise ELSE FormatStatusInt(n.n)

\* digits.zfill(2) for a single digit
PadSingleDigit(digits) == IF Len(digits) = 1 THEN ZFill(digits, 2) ELSE digits

\* parse_to_int_or_hex for a string s, low = s.lower()
ParseOfStr(s, low) ==
    IF low = ANY THEN STATUS_ANY
    ELSE IF StartsWith(low, <<"0", "x">>)
    THEN HexOrZero(PadSingleDigit(Filter(Lower(Strip(From(s, 2))), Range(HexChars))))
    ELSE IF StartsWith(low, <<"0", "b">>)
    THEN FormatStatusParsed(PyInt(DropUnderscores(From(s, 2)), 2))
    ELSE IF Range(s) \subseteq BitPatternChars THEN PStr(s)
    ELSE FormatStatusParsed(PyInt(s, 10))

\* parse_to_int_or_hex: PStr(..) or Raise
parse_to_int_or_hex(value) ==
    IF IsStr(value) THEN ParseOfStr(value.s, Lower(value.s))
    ELSE IF value.t = "int" THEN FormatStatusInt(value.n)
    ELSE Raise

----------------------------------------------------------------------------
(* DTCInfo and the matchers *)

\* DTCInfo.__init__: the code is kept as str(DTC).lower(), the status as given
DTCInfo(code, status) == [DTC |-> Lower(PyStr(code)), status |-> status]

\* a is not None and b is not None and a == b, for two outcomes of _to_int; an
\* exception in either gives False
BothEqual(a, b) == a # Raise /\ b # Raise /\ a # PNone /\ b # PNone /\ a.n = b.n

\* dtc_matches_code: any exception is caught and gives False
dtc_matches_code(dtc, rule) == BothEqual(_to_int(PStr(dtc.DTC)), _to_int(PStr(rule.DTC)))

\* the four bits of one hex digit
Nibble(c) == ZFill(ToBase(CharVal(c), 2), 4)

RECURSIVE Nibbles(_)
Nibbles(s) == IF s = <<>> THEN <<>> ELSE Nibble(Head(s)) \o Nibbles(Tail(s))

RECURSIVE StripLeadingZeros(_)
StripLeadingZeros(s) ==
    IF Len(s) > 1 /\ Head(s) = "0" THEN StripLeadingZeros(Tail(s)) ELSE s

\* bin(n)[2:] from the binary digits of |n|: bin() of a negative n is "-0b...",
\* which [2:] cuts to "b..."
SignedBin(neg, bits) == IF neg /\ bits # <<"0">> THEN <<"b">> \o bits ELSE bits

\* bin(int(s, 16))[2:] for a string s int() parses: the binary digits of the hex
\* digits, without leading zeros (computed digit by digit, so that long strings
\* do not leave the integer range)
DutBin(s) ==
    SignedBin(Negative(Strip(s)),
              StripLeadingZeros(Nibbles(DropUnderscores(IntBody(Unsigned(Strip(s)), 16)))))

\* mutant: the loop compares every position, "*" included
PatternLoopNoWildcard(dut_bin, rule_pattern) ==
    \A i \in 1..Len(rule_pattern) : dut_bin[i] = rule_pattern[i]

\* the zip() loop of status_matches over the two aligned strings
PatternLoop(dut_bin, rule_pattern) ==
    \A i \in 1..Len(rule_pattern) :
        ~(rule_pattern[i] # "*" /\ dut_bin[i] # rule_pattern[i])

\* max(len(rule_pattern), len(dut_bin))
MaxLen(rule_pattern, dut_bin) ==
    IF Len(rule_pattern) >= Len(dut_bin) THEN Len(rule_pattern) ELSE Len(dut_bin)

\* both strings zero-filled to maxlen, then the loop
PatternAligned(dut_bin, rule_pattern) ==
    PatternLoop(ZFill(dut_bin, MaxLen(rule_pattern, dut_bin)),
                ZFill(rule_pattern, MaxLen(rule_pattern, dut_bin)))

\* status_matches
status_matches(dut_status, rule_status) ==
    IF rule_status = STATUS_ANY THEN TRUE
    ELSE IF IsStr(rule_status) /\ "*" \in Range(rule_status.s)
    THEN \* int(dut_status, 16) raises for a non-string or an unparseable string: False
         /\ IsStr(dut_status)
         /\ IntOk(dut_status.s, 16)
         /\ PatternAligned(DutBin(dut_status.s), rule_status.s)
    ELSE BothEqual(_to_int(dut_status), _to_int(rule_status))

----------------------------------------------------------------------------
(* DTC rule matcher: build_comprehensive_dtc_results_table *)

STATUS_ALLOWED == "Allowed"

STATUS_MUTED == "Muted"

STATUS_EXPECTED == "Expected"

\* a table row: [DTC, Status, Present/Not present, Type, DTC+Status, Result]
Row(code, status, presence, type, plus, result) ==
    <<code, status, presence, type, plus, result>>

RowCode(row) == row[1]

RowStatus(row) == row[2]

RowPresence(row) == row[3]

RowType(row) == row[4]

RowPlus(row) == row[5]

RowResult(row) == row[6]

\* rule_sets, flattened in scan order: <<type_name, rule>> pairs
TagRules(type_name, rules) == [i \in 1..Len(rules) |-> <<type_name, rules[i]>>]

\* the order in which the categories are scanned
rule_sets_of(allowed_dtcs, muted_dtcs, expected_dtcs) ==
    TagRules(STATUS_ALLOWED, allowed_dtcs)
        \o TagRules(STATUS_MUTED, muted_dtcs)
        \o TagRules(STATUS_EXPECTED, expected_dtcs)

\* the least element of a non-empty set of indices, 0 for the empty set
FirstOf(hits) == IF hits = {} THEN 0 ELSE CHOOSE i \in hits : \A j \in hits : i <= j

\* index of the first rule, in scan order, whose code matches dut; 0 when none does
FirstMatch(dut, rule_sets) ==
    FirstOf({i \in 1..Len(rule_sets) : dtc_matches_code(dut, rule_sets[i][2])})

\* "none" for Allowed and Muted, "pass" for Expected
MatchResult(type_name) ==
    IF type_name \in {STATUS_ALLOWED, STATUS_MUTED} THEN "none" ELSE "pass"

\* the result of a row under the matched rule of category type_name, matches the
\* answer of status_matches(dut.status, rule.status)
RuleResult(matches, rule_status, type_name) ==
    IF IsStr(rule_status) /\ "*" \in Range(rule_status.s)
    THEN IF matches THEN MatchResult(type_name) ELSE "fail"
    ELSE IF rule_status = STATUS_ANY
    THEN MatchResult(type_name)
    ELSE IF matches THEN MatchResult(type_name) ELSE "fail"

\* format_dtc_code(rec.DTC) and parse_to_int_or_hex(rec.status) of a record
Formatted(rec) ==
    [code |-> format_dtc_code(PStr(rec.DTC)), status |-> parse_to_int_or_hex(rec.status)]

\* whether formatting the record raised
FormatRaises(f) == f.code = Raise \/ f.status = Raise

\* f"{format_dtc_code(rule.DTC)}+{parse_to_int_or_hex(rule.status)}"
DtcPlusStatus(f) == f.code.s \o <<"+">> \o f.status.s

\* the row of dut under its first matching rule and the marks of the expected
\* rules; d and r are dut and rule formatted
MatchedStep(st, dut, d, type_name, rule, r, expected_dtcs) ==
    IF FormatRaises(r) THEN [st EXCEPT !.raised = TRUE]
    ELSE [st EXCEPT
            !.data = Append(@, Row(d.code.s, d.status.s, "Present", type_name, DtcPlusStatus(r),
                                   RuleResult(status_matches(dut.status, rule.status),
                                              rule.status, type_name))),
            !.expected_found =
                IF type_name = STATUS_EXPECTED
                THEN [e \in 1..Len(expected_dtcs) |->
                         @[e] \/ dtc_matches_code(dut, expected_dtcs[e])]
                ELSE @]

\* the row of a dut no rule matches
UnmatchedStep(st, d) ==
    [st EXCEPT !.data = Append(@, Row(d.code.s, d.status.s, "Present", "Unexpected", <<>>, "fail"))]

\* one iteration for dut, d its formatted record and k the index of its first
\* matching rule
FormattedStep(st, dut, d, k, rule_sets, expected_dtcs) ==
    IF FormatRaises(d) THEN [st EXCEPT !.raised = TRUE]
    ELSE IF k = 0 THEN UnmatchedStep(st, d)
    ELSE MatchedStep(st, dut, d, rule_sets[k][1], rule_sets[k][2], Formatted(rule_sets[k][2]),
                     expected_dtcs)

\* one iteration of the loop over dut_dtcs: st = [data, expected_found, raised]
DutStep(st, dut, rule_sets, expected_dtcs) ==
    IF st.raised THEN st
    ELSE FormattedStep(st, dut, Formatted(dut), FirstMatch(dut, rule_sets), rule_sets,
                       expected_dtcs)

RECURSIVE DutLoop(_, _, _, _)
DutLoop(st, dut_dtcs, rule_sets, expected_dtcs) ==
    IF dut_dtcs = <<>> THEN st
    ELSE DutLoop(DutStep(st, Head(dut_dtcs), rule_sets, expected_dtcs),
                 Tail(dut_dtcs), rule_sets, expected_dtcs)

\* the "Not Present" row of an expected rule, f the rule formatted
MissingRowOf(f) ==
    Row(f.code.s, f.status.s, "Not Present", STATUS_EXPECTED, DtcPlusStatus(f), "fail")

\* the "Not Present" row of the expected rule ex
MissingRow(ex) == MissingRowOf(Formatted(ex))

\* the row of an expected rule not found is appended, f the rule formatted
MissingStep(st, f) ==
    IF FormatRaises(f) THEN [st EXCEPT !.raised = TRUE]
    ELSE [st EXCEPT !.data = Append(@, MissingRowOf(f))]

\* mutant: an expected rule with status any or a wildcard status is not reported missing
RECURSIVE MissingLoopExactOnly(_, _, _)
MissingLoopExactOnly(st, expected_dtcs, idx) ==
    IF idx > Len(expected_dtcs) \/ st.raised THEN st
    ELSE MissingLoopExactOnly(
             IF st.expected_found[idx] \/ _to_int(expected_dtcs[idx].status) = PNone
             THEN st ELSE MissingStep(st, Formatted(expected_dtcs[idx])),
             expected_dtcs, idx + 1)

\* the loop over expected_dtcs that reports the expected rules not found
RECURSIVE MissingLoop(_, _, _)
MissingLoop(st, expected_dtcs, idx) ==
    IF idx > Len(expected_dtcs) \/ st.raised THEN st
    ELSE MissingLoop(IF st.expected_found[idx] THEN st
                     ELSE MissingStep(st, Formatted(expected_dtcs[idx])),
                     expected_dtcs, idx + 1)

\* table_data = [] and expected_found = [False] * len(expected_dtcs)
EmptyTableState(expected_dtcs) ==
    [data |-> <<>>, expected_found |-> [e \in 1..Len(expected_dtcs) |-> FALSE], raised |-> FALSE]

\* build_comprehensive_dtc_results_table: [raised, data, expected_found]
build_comprehensive_dtc_results_table(dut_dtcs, allowed_dtcs, muted_dtcs, expected_dtcs) ==
    MissingLoop(DutLoop(EmptyTableState(expected_dtcs), dut_dtcs,
                        rule_sets_of(allowed_dtcs, muted_dtcs, expected_dtcs), expected_dtcs),
                expected_dtcs, 1)

----------------------------------------------------------------------------
(* Report sink: TestReport.add_table / add_step behind test_report_context *)

\* collect_statuses of get_case_status: the status of every step, table and
\* chart, and of every group whose status is not NONE together with what
\* its children collect (as a set: the statuses are only tested for membership)
RECURSIVE collect_statuses(_)
collect_statuses(entries) ==
    UNION {IF entries[i].category = "GROUP" /\ entries[i].status # "NONE"
           THEN {entries[i].status} \cup collect_statuses(entries[i].children)
           ELSE IF entries[i].category \in {"STEP", "TABLE", "CHART"}
                THEN {entries[i].status}
                ELSE {} : i \in 1..Len(entries)}

\* the first of ERROR, FAIL, PASS among the statuses, else NONE
FirstByRank(all_statuses) ==
    IF "ERROR" \in all_statuses THEN "ERROR"
    ELSE IF "FAIL" \in all_statuses THEN "FAIL"
    ELSE IF "PASS" \in all_statuses THEN "PASS"
    ELSE "NONE"

\* get_case_status
get_case_status(lines) == FirstByRank(collect_statuses(lines))

\* index of the first column header that reads "result" (case-insensitive); 0 when none
ResultIdx(column_header) ==
    LET hits == {i \in 1..Len(column_header) : column_header[i] \in {"Result", "result", "RESULT"}}
    IN  IF hits = {} THEN 0 ELSE CHOOSE i \in hits : \A j \in hits : i <= j

\* the sort key of get_table_status: FAIL 0, PASS 1, NONE 2, anything else 3
SortPriority(cell) ==
    IF cell \in {"fail", "FAIL"} THEN 0
    ELSE IF cell \in {"pass", "PASS"} THEN 1
    ELSE IF cell \in {"none", "NONE"} THEN 2
    ELSE 3

\* the rows of data whose result cell has sort key k, in their order
RECURSIVE RowsWithPriority(_, _, _)
RowsWithPriority(data, idx, k) ==
    IF data = <<>> THEN <<>>
    ELSE (IF SortPriority(Head(data)[idx]) = k THEN <<Head(data)>> ELSE <<>>)
            \o RowsWithPriority(Tail(data), idx, k)

\* data.sort(key=priority): a stable sort on the result cell
SortByResult(data, idx) ==
    RowsWithPriority(data, idx, 0) \o RowsWithPriority(data, idx, 1)
        \o RowsWithPriority(data, idx, 2) \o RowsWithPriority(data, idx, 3)

\* get_table_status for a table with a result column (the rows all have that column)
ResultColumnStatus(data, idx) ==
    IF \E i \in 1..Len(data) : SortPriority(data[i][idx]) = 0 THEN "FAIL"
    ELSE IF \E i \in 1..Len(data) : SortPriority(data[i][idx]) = 1 THEN "PASS"
    ELSE "NONE"

\* get_table_status for a table without result column (the rule summary, whose
\* rows are [Type, DTC, Status]): every cell is scanned for "fail" and "pass"
CellReads(row, w, word) ==
    \/ row[1] \in {word}
    \/ \E j \in 2..3 : Lower(Strip(row[j])) = w

AnyCellStatus(data) ==
    IF \E i \in 1..Len(data) : CellReads(data[i], <<"f", "a", "i", "l">>, "FAIL") THEN "FAIL"
    ELSE IF \E i \in 1..Len(data) : CellReads(data[i], <<"p", "a", "s", "s">>, "PASS") THEN "PASS"
    ELSE "NONE"

\* get_table_status with result_idx found: the status, and the data as the
\* in-place sort leaves it
TableStatusAt(table, idx) ==
    IF idx # 0
    THEN [status |-> ResultColumnStatus(table.data, idx), data |-> SortByResult(table.data, idx)]
    ELSE [status |-> AnyCellStatus(table.data), data |-> table.data]

\* get_table_status
get_table_status(table) == TableStatusAt(table, ResultIdx(table.column_header))

\* f"Table: {name}"
TableComment(name) == <<"Table: ", name>>

\* the entry appended to the children of the group the path leads to, to the
\* entries themselves for the empty path
RECURSIVE AppendAt(_, _, _)
AppendAt(entries, path, entry) ==
    IF path = <<>> THEN Append(entries, entry)
    ELSE [entries EXCEPT ![Head(path)].children = AppendAt(@, Tail(path), entry)]

\* the children of the group the path leads to, the entries for the empty path
RECURSIVE EntriesAt(_, _)
EntriesAt(entries, path) ==
    IF path = <<>> THEN entries ELSE EntriesAt(entries[Head(path)].children, Tail(path))

\* the report with its lines replaced and the case status recomputed
WithLines(rep, lines) == [rep EXCEPT !.lines = lines, !.status = get_case_status(lines)]

\* an entry appended to the innermost open group, or to the lines when no
\* group is open, and the case status recomputed
AppendLine(rep, entry) == WithLines(rep, AppendAt(rep.lines, rep.group_stack, entry))

\* the priority of get_group_status: ERROR 3, FAIL 2, PASS 1, anything else 0
GroupPriority(status) ==
    CASE status = "ERROR" -> 3 [] status = "FAIL" -> 2 [] status = "PASS" -> 1 [] OTHER -> 0

RECURSIVE get_group_status(_)

\* the status get_group_status reads for a child: computed from the
\* children for a group, the child's own status otherwise
ChildStatus(child) ==
    IF child.category = "GROUP" THEN get_group_status(child.children) ELSE child.status

\* the loop of get_group_status: a child replaces the status kept so far
\* when its priority is higher
RECURSIVE GroupStatusFrom(_, _)
GroupStatusFrom(children, group_status) ==
    IF children = <<>> THEN group_status
    ELSE GroupStatusFrom(Tail(children),
                         IF GroupPriority(ChildStatus(Head(children))) > GroupPriority(group_status)
                         THEN ChildStatus(Head(children))
                         ELSE group_status)

\* get_group_status: the value it returns
get_group_status(children) == GroupStatusFrom(children, "NONE")

\* get_group_status: the children as it leaves them, every group among them
\* carrying the status computed for it
RECURSIVE Restated(_)
Restated(children) ==
    [i \in 1..Len(children) |->
        IF children[i].category = "GROUP"
        THEN [children[i] EXCEPT !.status = get_group_status(children[i].children),
                                 !.children = Restated(@)]
        ELSE children[i]]

\* the group the path leads to given its status from its children
RECURSIVE CloseAt(_, _)
CloseAt(entries, path) ==
    IF Len(path) = 1
    THEN [entries EXCEPT ![Head(path)].status = get_group_status(entries[Head(path)].children),
                         ![Head(path)].children = Restated(@)]
    ELSE [entries EXCEPT ![Head(path)].children = CloseAt(@, Tail(path))]

\* TestReport.start_group on entering the block: the group is appended where
\* entries go and becomes the innermost open group. group_stack keeps, for
\* every open group, its position among the entries it was appended to
StartGroup(rep, title, comment) ==
    [rep EXCEPT !.lines = AppendAt(@, rep.group_stack,
                                   [category |-> "GROUP", title |-> title, comment |-> comment,
                                    children |-> <<>>, status |-> "NONE"]),
                !.group_stack = Append(@, Len(EntriesAt(rep.lines, rep.group_stack)) + 1)]

\* mutant: the group keeps the status it was opened with
EndGroupStatusKept(rep) ==
    [rep EXCEPT !.group_stack = SubSeq(@, 1, Len(@) - 1), !.status = get_case_status(rep.lines)]

\* TestReport.start_group on leaving the block: the group is popped, takes
\* the status of its children, and the case status is recomputed
EndGroup(rep) ==
    WithLines([rep EXCEPT !.group_stack = SubSeq(@, 1, Len(@) - 1)],
              CloseAt(rep.lines, rep.group_stack))

\* TestReport.add_table with the table status ts: the report keeps name, data
\* and column_header of the table, the data as sorted
AddTableWithStatus(rep, table, ts) ==
    AppendLine([rep EXCEPT !.tables = Append(@, [name |-> table.name, data |-> ts.data,
                                                 column_header |-> table.column_header])],
               [category |-> "TABLE", status |-> ts.status,
                comment |-> TableComment(table.name), table_idx |-> Len(rep.tables)])

\* add_table of the report context and TestReport.add_table
ReportAddTable(rep, table) == AddTableWithStatus(rep, table, get_table_status(table))

\* TestReport.add_step
ReportAddStep(rep, status, comment) ==
    AppendLine(rep, [category |-> "STEP", status |-> status, comment |-> comment,
                     table_idx |-> -1])

\* TestReport.__init__ with set_report(report), or no report set
NewReport(active) ==
    [active |-> active, lines |-> <<>>, tables |-> <<>>, status |-> "NONE", group_stack |-> <<>>]

----------------------------------------------------------------------------
(* evaluate_dtc_block *)

\* whether a call result is an exception
Raised(r) == r.raised

\* format_dtc_code(x) for x in muted
FormattedCodes(muted_config) ==
    [i \in 1..Len(muted_config) |-> format_dtc_code(muted_config[i])]

\* the DTCInfo list of get_muted_dtcs for the formatted codes: [raised, muted]
MutedOf(codes) ==
    IF \E i \in 1..Len(codes) : codes[i] = Raise
    THEN [raised |-> TRUE, muted |-> <<>>]
    ELSE [raised |-> FALSE, muted |-> [i \in 1..Len(codes) |-> DTCInfo(codes[i], STATUS_ANY)]]

\* get_muted_dtcs over config.muted_troubles.DTC: [raised, muted]
get_muted_dtcs(muted_config) == MutedOf(FormattedCodes(muted_config))

\* the rules in the order of the summary rows: Allowed, Expected, Muted
SummaryOrder(allowed_dtcs, expected_dtcs, muted_dtcs) ==
    TagRules(STATUS_ALLOWED, allowed_dtcs)
        \o TagRules(STATUS_EXPECTED, expected_dtcs)
        \o TagRules(STATUS_MUTED, muted_dtcs)

FormattedRules(tagged) == [i \in 1..Len(tagged) |-> Formatted(tagged[i][2])]

\* the summary table of the tagged rules, fs the rules formatted: [raised, table]
SummaryTable(tagged, fs) ==
    IF \E i \in 1..Len(fs) : FormatRaises(fs[i])
    THEN [raised |-> TRUE, table |-> <<>>]
    ELSE [raised |-> FALSE,
          table |-> [name |-> "DTC Rule Summary",
                     column_header |-> <<"Type", "DTC", "Status">>,
                     data |-> [i \in 1..Len(fs) |-> <<tagged[i][1], fs[i].code.s, fs[i].status.s>>],
                     expanded |-> TRUE]]

\* build_dtc_rule_summary_table: [raised, table]
build_dtc_rule_summary_table(allowed_dtcs, expected_dtcs, muted_dtcs) ==
    SummaryTable(SummaryOrder(allowed_dtcs, expected_dtcs, muted_dtcs),
                 FormattedRules(SummaryOrder(allowed_dtcs, expected_dtcs, muted_dtcs)))

ComprehensiveHeader == <<"DTC", "Status", "Present/Not present", "Type", "DTC+Status", "Result">>

ComprehensiveTable(data) ==
    [name |-> "DTC Comprehensive Evaluation", column_header |-> ComprehensiveHeader,
     data |-> data, expanded |-> TRUE]

\* DTCStatus.__init__: the value kept for a formatted status string; Raise when
\* int() rejects it
DTCStatusValue(s) ==
    IF Lower(s) = ANY THEN STATUS_ANY
    ELSE PyInt(s, IF StartsWith(s, <<"0", "x">>) THEN 16 ELSE 10)

\* DTC(format_dtc_code(dtc.DTC), parse_to_int_or_hex(dtc.status))
DTCObj(dtc) ==
    [dtc |-> format_dtc_code(format_dtc_code(PStr(dtc.DTC))).s,
     status |-> DTCStatusValue(parse_to_int_or_hex(dtc.status).s)]

\* mutant: only the first row decides the overall status
OverallStatusFirstRowOnly(data) ==
    IF data # <<>> /\ RowResult(data[1]) = "fail" THEN "FAIL" ELSE "PASS"

\* "FAIL" if any(r == "fail" for r in results) else "PASS"
OverallStatus(data) ==
    IF \E i \in 1..Len(data) : RowResult(data[i]) = "fail" THEN "FAIL" ELSE "PASS"

\* the step comment f"DTC evaluation overall status: {status}"
OverallComment(status) ==
    IF status = "PASS" THEN "DTC evaluation overall status: PASS"
    ELSE "DTC evaluation overall status: FAIL"

\* the call ends with an exception, the report as it is by then
Failed(rep) == [out |-> [raised |-> TRUE, ret |-> <<>>], rep |-> rep]

\* add_table(table) and add_step(status, ...) of the comprehensive table
EmitEvaluation(rep, data, status) ==
    ReportAddStep(ReportAddTable(rep, ComprehensiveTable(data)), status, OverallComment(status))

\* the DTC objects are built and returned, rep3 the report after the step
ReturnObjects(dtc_objs, rep3) ==
    IF \E i \in 1..Len(dtc_objs) : dtc_objs[i].status = Raise
    THEN Failed(rep3)
    ELSE [out |-> [raised |-> FALSE, ret |-> dtc_objs], rep |-> rep3]

\* the part of evaluate_dtc_block after the comprehensive table is built
EvaluateBuilt(dut_dtcs, built, rep1) ==
    IF Raised(built) THEN Failed(rep1)
    ELSE ReturnObjects([i \in 1..Len(dut_dtcs) |-> DTCObj(dut_dtcs[i])],
                       EmitEvaluation(rep1, built.data, OverallStatus(built.data)))

\* the part of evaluate_dtc_block after the summary table is added
EvaluateObserved(dut_dtcs, allowed_dtcs, expected_dtcs, muted_dtcs, rep1) ==
    IF dut_dtcs = <<>>
    THEN [out |-> [raised |-> FALSE, ret |-> <<>>], rep |-> EmitEvaluation(rep1, <<>>, "PASS")]
    ELSE EvaluateBuilt(dut_dtcs,
                       build_comprehensive_dtc_results_table(dut_dtcs, allowed_dtcs, muted_dtcs,
                                                             expected_dtcs),
                       rep1)

\* the part of evaluate_dtc_block after the summary table is built
EvaluateSummarised(dut_dtcs, allowed_dtcs, expected_dtcs, muted_dtcs, summary, rep) ==
    IF Raised(summary) \/ ~rep.active THEN Failed(rep)
    ELSE EvaluateObserved(dut_dtcs, allowed_dtcs, expected_dtcs, muted_dtcs,
                          ReportAddTable(rep, summary.table))

\* the part of evaluate_dtc_block after get_muted_dtcs, m its outcome
EvaluateMuted(dut_dtcs, allowed_dtcs, expected_dtcs, m, rep) ==
    IF Raised(m) THEN Failed(rep)
    ELSE EvaluateSummarised(dut_dtcs, allowed_dtcs, expected_dtcs, m.muted,
                            build_dtc_rule_summary_table(allowed_dtcs, expected_dtcs, m.muted),
                            rep)

\* evaluate_dtc_block: [out, rep], out = [raised, ret], rep the report afterwards
evaluate_dtc_block(dut_dtcs, allowed_dtcs, expected_dtcs, muted_config, rep) ==
    EvaluateMuted(dut_dtcs, allowed_dtcs, expected_dtcs, get_muted_dtcs(muted_config), rep)

----------------------------------------------------------------------------
(* Bounds and input values *)

\* the longest observed list
MaxDut == 2

\* the most rules of one call, over the Allowed, Expected and Muted lists together
MaxRules == 2

SeqsUpTo(S, n) == UNION {[1..k -> S] : k \in 0..n}

\* status strings
StD4 == PStr(<<"0", "x", "d", "4">>)

StD8 == PStr(<<"0", "x", "d", "8">>)

StPattern == PStr(<<"1", "1", "*", "*", "0", "1", "*", "*">>)

\* code values: 16 as "0x10" and as the integer 16, 10 as "0xa" and as the integer 10
Code16Hex == PStr(<<"0", "x", "1", "0">>)

Code16Int == PInt(16)

Code10Hex == PStr(<<"0", "x", "a">>)

Code10Int == PInt(10)

\* a code that is no numeric literal
CodeBad == PStr(<<"z", "z">>)

\* observed DTCs
DutSet ==
    {DTCInfo(Code16Hex, StD4), DTCInfo(Code16Hex, StD8),
     DTCInfo(Code10Int, StD4), DTCInfo(Code16Hex, PInt(212)), DTCInfo(CodeBad, StD4)}

\* observed DTCs handed to build_comprehensive_dtc_results_table directly
TableDutSet == DutSet \cup {DTCInfo(Code10Hex, StD4)}

AllowedSet ==
    {DTCInfo(Code16Hex, StD4), DTCInfo(Code16Int, StPattern), DTCInfo(Code10Hex, STATUS_ANY)}

ExpectedSet ==
    {DTCInfo(Code16Hex, STATUS_ANY), DTCInfo(Code10Hex, StPattern), DTCInfo(Code16Int, StD4)}

\* expected rules handed to build_comprehensive_dtc_results_table directly
TableExpectedSet == ExpectedSet \cup {DTCInfo(Code10Int, STATUS_ANY)}

\* muted rules handed to build_comprehensive_dtc_results_table directly
MutedSet ==
    {DTCInfo(format_dtc_code(Code16Int), STATUS_ANY), DTCInfo(format_dtc_code(Code10Int), STATUS_ANY),
     DTCInfo(Code16Hex, PInt(212))}

\* entries of config.muted_troubles.DTC
MutedConfigSet == {Code16Int, Code10Hex}

\* the rule lists of one call of evaluate_dtc_block
BlockRules ==
    {r \in [allowed_dtcs : SeqsUpTo(AllowedSet, MaxRules),
            expected_dtcs : SeqsUpTo(ExpectedSet, MaxRules),
            muted_config : SeqsUpTo(MutedConfigSet, MaxRules)] :
        Len(r.allowed_dtcs) + Len(r.expected_dtcs) + Len(r.muted_config) <= MaxRules}

\* the rule lists of one call of build_comprehensive_dtc_results_table
TableRules ==
    {r \in [allowed_dtcs : SeqsUpTo(AllowedSet, MaxRules),
            muted_dtcs : SeqsUpTo(MutedSet, MaxRules),
            expected_dtcs : SeqsUpTo(TableExpectedSet, MaxRules)] :
        Len(r.allowed_dtcs) + Len(r.muted_dtcs) + Len(r.expected_dtcs) <= MaxRules}

NoOutput == [raised |-> FALSE, ret |-> <<>>]

----------------------------------------------------------------------------
(* Spec: one call of evaluate_dtc_block on a fresh report *)

Init ==
    /\ pc = "start"
    /\ \E d \in SeqsUpTo(DutSet, MaxDut), r \in BlockRules :
          input = [dut_dtcs |-> d, allowed_dtcs |-> r.allowed_dtcs,
                   expected_dtcs |-> r.expected_dtcs, muted_config |-> r.muted_config]
    /\ output = NoOutput
    /\ report \in {NewReport(TRUE), NewReport(FALSE)}

EvaluateDtcBlock ==
    /\ pc = "start"
    /\ \E r \in {evaluate_dtc_block(input.dut_dtcs, input.allowed_dtcs, input.expected_dtcs,
                                   input.muted_config, report)} :
           /\ output' = r.out
           /\ report' = r.rep
    /\ pc' = "done"
    /\ UNCHANGED input

Next == EvaluateDtcBlock

Spec == Init /\ [][Next]_vars

----------------------------------------------------------------------------
(* SpecTable: build_comprehensive_dtc_results_table as a function of its arguments *)

InitTable ==
    /\ pc = "start"
    /\ \E d \in SeqsUpTo(TableDutSet, MaxDut), r \in TableRules :
          input = [dut_dtcs |-> d, allowed_dtcs |-> r.allowed_dtcs,
                   muted_dtcs |-> r.muted_dtcs, expected_dtcs |-> r.expected_dtcs]
    /\ output = NoOutput
    /\ report = NewReport(FALSE)

BuildTable ==
    /\ pc = "start"
    /\ LET r == build_comprehensive_dtc_results_table(
                    input.dut_dtcs, input.allowed_dtcs, input.muted_dtcs, input.expected_dtcs)
       IN  output' = [raised |-> r.raised, ret |-> r.data]
    /\ pc' = "done"
    /\ UNCHANGED <<input, report>>

NextTable == BuildTable

SpecTable == InitTable /\ [][NextTable]_vars

----------------------------------------------------------------------------
(* What the specification means by a value: the integer a code or status     *)
(* denotes, and the match of a wildcard pattern against an integer.          *)

\* the integer denoted by a well-formed code or status in a supported encoding
NumValue(v) ==
    IF v.t = "int" THEN v.n
    ELSE LET s == Lower(Strip(v.s))
         IN  IF StartsWith(s, <<"0", "x">>) THEN DigitsVal(DropUnderscores(From(s, 2)), 16, 0)
             ELSE IF StartsWith(s, <<"0", "b">>) THEN DigitsVal(DropUnderscores(From(s, 2)), 2, 0)
             ELSE DigitsVal(s, 10, 0)

\* the codes of two records denote the same integer
SameCode(d, r) == NumValue(PStr(d.DTC)) = NumValue(PStr(r.DTC))

\* pattern p matches the integer n: both padded with zeros on the left to the
\* longer length, every position of p that is not "*" equals the bit of n
PatternMatchesValue(n, p) ==
    LET bits == ToBase(n, 2)
        len == IF Len(bits) >= Len(p) THEN Len(bits) ELSE Len(p)
        b == ZFill(bits, len)
        q == ZFill(p, len)
    IN  \A i \in 1..len : q[i] = "*" \/ q[i] = b[i]

IsWildcard(st) == IsStr(st) /\ "*" \in Range(st.s)

\* the status comparison of the specification: any, bit pattern, or integer equality
StatusAgrees(dut_status, rule_status) ==
    IF rule_status = STATUS_ANY THEN TRUE
    ELSE IF IsWildcard(rule_status) THEN PatternMatchesValue(NumValue(dut_status), rule_status.s)
    ELSE NumValue(dut_status) = NumValue(rule_status)

HasSameCode(d, rules) == \E j \in 1..Len(rules) : SameCode(d, rules[j])

\* the first rule of the list with the code of d
FirstSameCode(d, rules) ==
    rules[CHOOSE j \in 1..Len(rules) :
            SameCode(d, rules[j]) /\ \A k \in 1..(j - 1) : ~SameCode(d, rules[k])]

TableDone == pc = "done" /\ ~output.raised

----------------------------------------------------------------------------
(* Claims on build_comprehensive_dtc_results_table (SpecTable) *)

\* C1: an observed DTC whose code is the code of an Allowed and of an Expected
\* rule gets a row of type Allowed, with result "none" when the Allowed rule's
\* status matches; in general the type of the row is the first category, in the
\* order Allowed, Muted, Expected, that holds a rule with the same code.
C1_AllowedFirst ==
    TableDone =>
        \A i \in 1..Len(input.dut_dtcs) :
            LET d == input.dut_dtcs[i]
                row == output.ret[i]
                inA == HasSameCode(d, input.allowed_dtcs)
                inM == HasSameCode(d, input.muted_dtcs)
                inE == HasSameCode(d, input.expected_dtcs)
            IN  /\ inA /\ inE =>
                    /\ RowType(row) = STATUS_ALLOWED
                    /\ StatusAgrees(d.status, FirstSameCode(d, input.allowed_dtcs).status)
                          => RowResult(row) = "none"
                /\ inA => RowType(row) = STATUS_ALLOWED
                /\ ~inA /\ inM => RowType(row) = STATUS_MUTED
                /\ ~inA /\ ~inM /\ inE => RowType(row) = STATUS_EXPECTED

\* the result the specification gives a row under a rule of a category
ClaimedResult(d, rule, type_name) ==
    IF StatusAgrees(d.status, rule.status)
    THEN (IF type_name = STATUS_EXPECTED THEN "pass" ELSE "none")
    ELSE "fail"

\* C4: for an observed DTC matched by code to a rule, the result is "pass"
\* (Expected) or "none" (Allowed, Muted) when the rule status is any, equals the
\* observed status as an integer, or is a pattern that matches it, and "fail"
\* otherwise.
C4_ResultByStatusKind ==
    TableDone =>
        \A i \in 1..Len(input.dut_dtcs) :
            LET d == input.dut_dtcs[i]
                rs == rule_sets_of(input.allowed_dtcs, input.muted_dtcs, input.expected_dtcs)
                k == FirstMatch(d, rs)
            IN  k # 0 => RowResult(output.ret[i]) = ClaimedResult(d, rs[k][2], rs[k][1])

\* C7: an observed DTC with the code of no rule gets one row Present, Unexpected,
\* with an empty DTC+Status cell and result "fail"; no other row is Unexpected.
C7_UnexpectedIffNoRule ==
    TableDone =>
        /\ \A i \in 1..Len(input.dut_dtcs) :
            LET d == input.dut_dtcs[i]
                row == output.ret[i]
                inNone == ~HasSameCode(d, input.allowed_dtcs \o input.muted_dtcs \o input.expected_dtcs)
            IN  /\ inNone => /\ RowPresence(row) = "Present"
                             /\ RowType(row) = "Unexpected"
                             /\ RowPlus(row) = <<>>
                             /\ RowResult(row) = "fail"
                /\ RowType(row) = "Unexpected" => inNone
        /\ \A i \in (Len(input.dut_dtcs) + 1)..Len(output.ret) : RowType(output.ret[i]) # "Unexpected"

----------------------------------------------------------------------------
(* Claims on evaluate_dtc_block (Spec) *)

\* the comprehensive table was handed to the report
TableEmitted == pc = "done" /\ Len(report.tables) >= 2

EmittedData == report.tables[2].data

\* some observed DTC carries the code of the rule
Carried(rule) == HasSameCode(rule, input.dut_dtcs)

\* how many rows of the emitted comprehensive table equal row
RowsLike(row) == Cardinality({r \in 1..Len(EmittedData) : EmittedData[r] = row})

\* the expected rules reported by the same "Not Present" row as rule j
Twins(j) ==
    {k \in 1..Len(input.expected_dtcs) :
        MissingRow(input.expected_dtcs[k]) = MissingRow(input.expected_dtcs[j])}

\* every expected rule carried by no observed DTC has exactly one row
\* Not Present / Expected / fail in the emitted table
MissingRowsPresent ==
    \A j \in 1..Len(input.expected_dtcs) :
        ~Carried(input.expected_dtcs[j]) =>
            /\ RowPresence(MissingRow(input.expected_dtcs[j])) = "Not Present"
            /\ RowType(MissingRow(input.expected_dtcs[j])) = STATUS_EXPECTED
            /\ RowResult(MissingRow(input.expected_dtcs[j])) = "fail"
            /\ RowsLike(MissingRow(input.expected_dtcs[j])) = Cardinality(Twins(j))

\* C2 as stated: for every observed list, the empty list included, each
\* Expected rule whose code no observed DTC carries has exactly one row
\* Not Present / Expected / fail in the emitted comprehensive table.
C2_MissingExpectedAnyList == TableEmitted => MissingRowsPresent

\* C2 amended: the same for every non-empty observed list (for the empty list the
\* emitted table has no rows).
C2_MissingExpectedNonEmpty ==
    TableEmitted /\ input.dut_dtcs # <<>> => MissingRowsPresent

\* C2 witness: a non-empty observed list and an uncarried Expected rule with a
\* wildcard status, reported in the emitted table.
C2_Witness ==
    /\ TableEmitted
    /\ input.dut_dtcs # <<>>
    /\ \E j \in 1..Len(input.expected_dtcs) :
          /\ ~Carried(input.expected_dtcs[j])
          /\ IsWildcard(input.expected_dtcs[j].status)
          /\ RowsLike(MissingRow(input.expected_dtcs[j])) = 1

\* C3: the overall status step is PASS when the observed list is empty (and the
\* emitted comprehensive table is empty); otherwise it is FAIL exactly when a row
\* of the comprehensive table has result "fail", and PASS if none has.
C3_OverallStatus ==
    /\ pc = "done" /\ ~output.raised => Len(report.lines) = 3
    /\ pc = "done" /\ Len(report.lines) = 3 =>
        LET step == report.lines[3]
            anyFail == \E r \in 1..Len(EmittedData) : RowResult(EmittedData[r]) = "fail"
        IN  /\ step.category = "STEP"
            /\ report.lines[2].category = "TABLE"
            /\ input.dut_dtcs = <<>> => step.status = "PASS" /\ EmittedData = <<>>
            /\ input.dut_dtcs # <<>> => step.status = (IF anyFail THEN "FAIL" ELSE "PASS")

\* C3 witness: a call with two observed DTCs whose emitted table holds a failing
\* row and a row that does not fail, and the FAIL step.
C3_Witness ==
    /\ pc = "done"
    /\ Len(report.lines) = 3
    /\ Len(input.dut_dtcs) >= 2
    /\ report.lines[3].status = "FAIL"
    /\ \E r \in 1..Len(EmittedData) : RowResult(EmittedData[r]) # "fail"

\* the code of the observed DTC is in the muted list of the configuration
InMutedConfig(d) ==
    \E k \in 1..Len(input.muted_config) : NumValue(PStr(d.DTC)) = NumValue(input.muted_config[k])

\* C8: an observed DTC whose code is in the muted list never has a row with
\* result "fail", whatever its status and the Allowed and Expected rules.
C8_MutedNeverFails ==
    TableEmitted =>
        \A i \in 1..Len(input.dut_dtcs) :
            InMutedConfig(input.dut_dtcs[i]) =>
                \A r \in 1..Len(EmittedData) :
                    /\ RowPresence(EmittedData[r]) = "Present"
                    /\ RowCode(EmittedData[r]) = format_dtc_code(PStr(input.dut_dtcs[i].DTC)).s
                    => RowResult(EmittedData[r]) # "fail"

----------------------------------------------------------------------------
(* SpecStatus: status_matches as a function of its arguments *)

MaxStatusValue == 5

MaxPatternLen == 2

\* the supported encodings of an integer
EncInt(n) == PInt(n)

EncDec(n) == PStr(ToDec(n))

EncHex(n) == PStr(<<"0", "x">> \o ZFill(ToHex(n), 2))

EncBin(n) == PStr(<<"0", "b">> \o ToBase(n, 2))

Encodings(n) == {EncInt(n), EncDec(n), EncHex(n), EncBin(n)}

\* 0b11010100, 0b11010101 and 0b11011000
ExampleStatusValues == {212, 213, 216}

StatusValues == (0..MaxStatusValue) \cup ExampleStatusValues

StatusInputs == UNION {Encodings(n) : n \in StatusValues}

\* the strings over {0, 1, *} of length 1..MaxPatternLen, and the example "11**01**"
PatternInputs ==
    {PStr(p) : p \in UNION {[1..k -> BitPatternChars] : k \in 1..MaxPatternLen}} \cup {StPattern}

InitStatus ==
    /\ pc = "start"
    /\ input \in [dut_status : StatusInputs, rule_status : PatternInputs]
    /\ output = NoOutput
    /\ report = NewReport(FALSE)

StatusMatches ==
    /\ pc = "start"
    /\ output' = [raised |-> FALSE, ret |-> status_matches(input.dut_status, input.rule_status)]
    /\ pc' = "done"
    /\ UNCHANGED <<input, report>>

NextStatus == StatusMatches

SpecStatus == InitStatus /\ [][NextStatus]_vars

\* C5 as stated: against the pattern "11**01**" the observed status 0b11010100
\* matches and the observed status 0b11010101 does not.
C5_ExampleAsStated ==
    pc = "done" /\ input.rule_status = StPattern =>
        /\ NumValue(input.dut_status) = 212 => output.ret = TRUE
        /\ NumValue(input.dut_status) = 213 => output.ret = FALSE

\* C5 amended: with the observed status written as a "0x" hex string, the pattern
\* "11**01**" matches 0b11010100 and also 0b11010101 (bit 0 lies under a "*");
\* it does not match 0b11011000, which differs at a fixed position.
C5_ExampleHex ==
    pc = "done" /\ input.rule_status = StPattern =>
        /\ input.dut_status = EncHex(212) => output.ret = TRUE
        /\ input.dut_status = EncHex(213) => output.ret = TRUE
        /\ input.dut_status = EncHex(216) => output.ret = FALSE

\* C5 witness: the call with "0xd5" and the pattern, answered true.
C5_Witness ==
    /\ pc = "done"
    /\ input.rule_status = StPattern
    /\ input.dut_status = EncHex(213)
    /\ output.ret = TRUE

\* C6: for every pattern over {0, 1, *} and every observed status in any
\* supported encoding, status_matches is true exactly when the pattern matches
\* the status value bit by bit after zero-padding to the longer length.
C6_PatternAnyEncoding ==
    pc = "done" =>
        output.ret = PatternMatchesValue(NumValue(input.dut_status), input.rule_status.s)

----------------------------------------------------------------------------
(* SpecCode: dtc_matches_code as a function of the two codes *)

MaxCodeValue == 11

\* a "0x" hex string with a "_" separator, such as "0x00_0a"
EncHexSep(n) == PStr(<<"0", "x", "0", "0", "_">> \o ZFill(ToHex(n), 2))

\* the code strings DTCInfo keeps for an integer and for the string encodings
CodeInputs ==
    UNION {{EncInt(n), EncDec(n), EncHex(n), EncHexSep(n), EncBin(n)} : n \in 0..MaxCodeValue}

InitCode ==
    /\ pc = "start"
    /\ input \in [dtc : {DTCInfo(c, StD4) : c \in CodeInputs},
                  rule : {DTCInfo(c, STATUS_ANY) : c \in CodeInputs}]
    /\ output = NoOutput
    /\ report = NewReport(FALSE)

DtcMatchesCode ==
    /\ pc = "start"
    /\ output' = [raised |-> FALSE, ret |-> dtc_matches_code(input.dtc, input.rule)]
    /\ pc' = "done"
    /\ UNCHANGED <<input, report>>

NextCode == DtcMatchesCode

SpecCode == InitCode /\ [][NextCode]_vars

\* C9: dtc_matches_code is true exactly when the two codes denote the same
\* integer, in every supported encoding, decimal strings made of the digits 0
\* and 1 included.
C9_MatchIffSameInteger ==
    pc = "done" => output.ret = SameCode(input.dtc, input.rule)

----------------------------------------------------------------------------
(* Response classifier: evaluate_diagnostic_expected_response                *)
(*                                                                           *)
(* A did, response or expected response is a record [k, n, l, w, s]:         *)
(*   k = "none" : None                k = "int"  : the integer n             *)
(*   k = "list" : the list of integers l                                     *)
(*   k = "str"  : a string that is not of the form "ln(...)", w its text     *)
(*   k = "ln"   : the string "ln(" + s + ")", s the characters in between    *)
(*   k = "hex"  : a string of hex bytes to_hex_str wrote, s its characters   *)

DVal(k, n, l, w, s) == [k |-> k, n |-> n, l |-> l, w |-> w, s |-> s]

DNone == DVal("none", 0, <<>>, "", <<>>)

DInt(n) == DVal("int", n, <<>>, "", <<>>)

DList(l) == DVal("list", 0, l, "", <<>>)

DStr(w) == DVal("str", 0, <<>>, w, <<>>)

DLn(s) == DVal("ln", 0, <<>>, "", s)

DHex(s) == DVal("hex", 0, <<>>, "", s)

\* a TypeError out of to_hex_str
DRaise == DVal("raise", 0, <<>>, "", <<>>)

\* response_to_bytes for a list of integers, an integer, or None
response_to_bytes(resp) ==
    IF resp.k = "list" THEN resp.l
    ELSE IF resp.k = "int" THEN <<resp.n>>
    ELSE <<>>

\* mutant: every response counts as received
TruthyAlways(resp) == TRUE

\* the truth value Python gives the response
Truthy(resp) ==
    IF resp.k = "list" THEN resp.l # <<>>
    ELSE IF resp.k = "int" THEN resp.n # 0
    ELSE resp.k # "none"

\* " ".join(f"0x{b:02X}" for b in val).lower()
RECURSIVE JoinHex(_)
JoinHex(l) ==
    IF l = <<>> THEN <<>>
    ELSE IF Len(l) = 1 THEN FormatStatusInt(l[1]).s
    ELSE FormatStatusInt(l[1]).s \o <<" ">> \o JoinHex(Tail(l))

\* to_hex_str: DHex(characters), the string itself for a string
\* int() rejects, or DRaise (TypeError) for None
to_hex_str(val) ==
    IF val.k = "list" THEN DHex(JoinHex(val.l))
    ELSE IF val.k = "int" THEN DHex(FormatStatusInt(val.n).s)
    ELSE IF val.k \in {"str", "ln"} THEN val
    ELSE DRaise

PositiveOffset == 64

NegativeResponse == 127

ReadDataService == 34

ReadDataPositive == 98

LnPayloadOffset == 3

NoReason == [msg |-> "", detail |-> DNone]

Reason(msg, detail) == [msg |-> msg, detail |-> detail]

\* mutant: the whole response is counted
PayloadLenWhole(actual_bytes) == Len(actual_bytes)

\* mutant: the expected first byte wraps around at 256
ExpectedFirstWrapped(main_did) == (main_did + PositiveOffset) % 256

\* expected_first = main_did + 0x40
ExpectedFirst(main_did) == main_did + PositiveOffset

\* len(actual_bytes[3:])
PayloadLen(actual_bytes) ==
    IF Len(actual_bytes) > LnPayloadOffset THEN Len(actual_bytes) - LnPayloadOffset ELSE 0

\* the classification: [raised, responsetype, result, reason]
Classify(did, actual_response, expected_response) ==
    LET did_bytes == response_to_bytes(did)
        actual_bytes == response_to_bytes(actual_response)
        has_did == did_bytes # <<>>
        main_did == IF has_did THEN did_bytes[1] ELSE -1
        verdict(rt, res, reason) ==
            [raised |-> FALSE, responsetype |-> rt, result |-> res, reason |-> reason]
    IN  IF expected_response.k = "str" /\ expected_response.w = "none"
        THEN verdict("none", "NONE",
                     IF Truthy(actual_response)
                     THEN Reason("Expected no response, received", to_hex_str(actual_response))
                     ELSE Reason("Expected no response and none was received", DNone))
        ELSE IF ~Truthy(actual_response)
        THEN [raised |-> TRUE, responsetype |-> "unknown", result |-> "FAIL",
              reason |-> Reason("Expected response, but received no response",
                                to_hex_str(expected_response))]
        ELSE IF expected_response.k = "ln"
        THEN LET N == PyInt(expected_response.s, 10)
             IN  IF N = Raise
                 THEN verdict("ln", "FAIL", Reason("Invalid ln(N) format", expected_response))
                 ELSE IF has_did /\ main_did = ReadDataService
                 THEN IF /\ actual_bytes # <<>>
                         /\ actual_bytes[1] = ReadDataPositive
                         /\ PayloadLen(actual_bytes) = N.n
                      THEN verdict("ln", "PASS", NoReason)
                      ELSE verdict("ln", "FAIL",
                                   Reason("For DID 0x22, expected response[0]==0x62 and len(response[3:])==N",
                                          to_hex_str(actual_response)))
                 ELSE verdict("ln", "FAIL",
                              Reason("ln(N) length check applies only to DID 0x22", DNone))
        ELSE IF expected_response.k = "list"
        THEN IF actual_bytes = response_to_bytes(expected_response)
             THEN verdict("explicit", "PASS", NoReason)
             ELSE verdict("explicit", "FAIL", Reason("Expected got", to_hex_str(actual_response)))
        ELSE IF expected_response.k = "str" /\ expected_response.w = "positive"
        THEN IF actual_bytes # <<>> /\ has_did /\ actual_bytes[1] = ExpectedFirst(main_did)
             THEN verdict("positive", "PASS", NoReason)
             ELSE verdict("positive", "FAIL",
                          Reason("Expected positive response (DID[0] + 0x40)",
                                 to_hex_str(actual_response)))
        ELSE IF expected_response.k = "str" /\ expected_response.w = "negative"
        THEN IF actual_bytes # <<>> /\ actual_bytes[1] = NegativeResponse
             THEN verdict("negative", "PASS", NoReason)
             ELSE verdict("negative", "FAIL",
                          Reason("Expected negative response (0x7F)", to_hex_str(actual_response)))
        ELSE verdict("unknown", "FAIL", Reason("Unknown expected_response format", expected_response))

\* the expected representation handed to the report and kept in the verdict
ExpectedText(expected_response) ==
    IF expected_response.k = "list"
    THEN to_hex_str(DList(response_to_bytes(expected_response)))
    ELSE to_hex_str(expected_response)

\* TestReport.add_diagnostic_tx_rx_group
ReportAddDiagnosticGroup(rep, name, tx_bytes, rx_bytes, expected, status) ==
    AppendLine(rep, [category |-> "GROUP", title |-> <<"send diagnostic request ", name>>,
                     status |-> status,
                     children |-> <<[category |-> "DIAGNOSTIC", tx |-> tx_bytes, rx |-> rx_bytes,
                                     expected |-> expected, status |-> status]>>])

\* the fallback table of the except branch
FallbackTable(did, actual_response, expected_response, c) ==
    [name |-> "Diagnostic Response Check for DID",
     column_header |-> <<"DID", "Expected", "Actual", "Result", "Reason">>,
     data |-> << <<to_hex_str(did), to_hex_str(expected_response), to_hex_str(actual_response),
                   c.result, c.reason>> >>,
     expanded |-> FALSE]

\* evaluate_diagnostic_expected_response: [out, rep], out = [raised, ret]
evaluate_diagnostic_expected_response(did, actual_response, expected_response, name, rep) ==
    LET c == Classify(did, actual_response, expected_response)
        failed == [out |-> [raised |-> TRUE, ret |-> <<>>], rep |-> rep]
        name_val == IF name.k # "none" THEN name ELSE to_hex_str(did)
        ret == [name |-> name_val,
                request |-> to_hex_str(DList(response_to_bytes(did))),
                response |-> to_hex_str(DList(response_to_bytes(actual_response))),
                expected |-> ExpectedText(expected_response),
                responsetype |-> c.responsetype,
                result |-> c.result,
                reason |-> c.reason]
    IN  IF c.raised THEN failed
        ELSE IF name_val.k # "raise" /\ ret.expected.k # "raise" /\ rep.active
        THEN [out |-> [raised |-> FALSE, ret |-> ret],
              rep |-> ReportAddDiagnosticGroup(rep, name_val, ret.request, ret.response,
                                               ret.expected, c.result)]
        ELSE \* the except branch: to_hex_str may raise again, add_table needs a report
             IF \/ to_hex_str(did).k = "raise"
                \/ to_hex_str(expected_response).k = "raise"
                \/ to_hex_str(actual_response).k = "raise"
                \/ ~rep.active
             THEN failed
             ELSE [out |-> [raised |-> FALSE, ret |-> ret],
                   rep |-> ReportAddStep(
                               ReportAddTable(rep, FallbackTable(did, actual_response,
                                                                 expected_response, c)),
                               c.result, "Diagnostic response check")]

----------------------------------------------------------------------------
(* SpecDiag: one call of evaluate_diagnostic_expected_response *)

MaxRespLen == 2

\* 0x00, 0x50, 0x62 and 0x7f: 0xC0 + 0x40 cut to a byte, the positive answers
\* to 0x10 and 0x22, and the negative answer
RespBytes == {0, 80, 98, 127}

\* the responses [0x62, 0xAA, 0xBB, 0x01, 0x02, 0x03] and [0x7F, 0x10, 0x31]
ExampleResponses == {<<98, 170, 187, 1, 2, 3>>, <<127, 16, 49>>}

ActualInputs ==
    {DList(l) : l \in SeqsUpTo(RespBytes, MaxRespLen) \cup ExampleResponses}
        \cup {DNone, DInt(0), DInt(80)}

DidInputs == {DInt(34), DInt(16), DInt(192), DList(<<34, 241, 144>>), DNone}

ExpectedInputs ==
    {DStr("none"), DStr("positive"), DStr("negative"), DStr("POSITIVE"),
     DLn(<<"0">>), DLn(<<"3">>), DLn(<<"x">>),
     DList(<<80>>), DList(<<127, 16, 49>>), DList(<<>>), DNone}

NameInputs == {DNone, DStr("request")}

InitDiag ==
    /\ pc = "start"
    /\ input \in [did : DidInputs, actual_response : ActualInputs,
                  expected_response : ExpectedInputs, name : NameInputs]
    /\ output = NoOutput
    /\ report \in {NewReport(TRUE), NewReport(FALSE)}

EvaluateDiagnostic ==
    /\ pc = "start"
    /\ \E r \in {evaluate_diagnostic_expected_response(
                    input.did, input.actual_response, input.expected_response, input.name, report)} :
           /\ output' = r.out
           /\ report' = r.rep
    /\ pc' = "done"
    /\ UNCHANGED input

NextDiag == EvaluateDiagnostic

SpecDiag == InitDiag /\ [][NextDiag]_vars

\* the call returned a verdict
Returned == pc = "done" /\ ~output.raised

\* the actual response holds no byte
NoResponse == response_to_bytes(input.actual_response) = <<>>

\* C10: with expected response "none" the returned result is NONE when the
\* actual response is empty, and FAIL, with a reason reporting the received
\* bytes, when it is not.
C10_NoneExpected ==
    Returned /\ input.expected_response = DStr("none") =>
        /\ NoResponse => output.ret.result = "NONE"
        /\ ~NoResponse =>
            /\ output.ret.result = "FAIL"
            /\ output.ret.reason = Reason("Expected no response, received",
                                          to_hex_str(input.actual_response))

\* the first byte of the request, -1 when there is none
MainDid == IF response_to_bytes(input.did) = <<>> THEN -1 ELSE response_to_bytes(input.did)[1]

\* the first byte of the actual response, -1 when there is none
FirstActual ==
    IF NoResponse THEN -1 ELSE response_to_bytes(input.actual_response)[1]

\* a response was received: it holds a byte and Python takes it as true
Received == ~NoResponse /\ Truthy(input.actual_response)

IsLength(s) == s # <<>> /\ \A i \in 1..Len(s) : CharVal(s[i]) < 10

\* the number of bytes after the first three of the actual response
BytesAfterThree ==
    IF Len(response_to_bytes(input.actual_response)) > 3
    THEN Len(response_to_bytes(input.actual_response)) - 3 ELSE 0

\* C12: for expected response "ln(N)" and a received actual response, the
\* verdict is PASS if and only if the first DID byte is 0x22, actual[0] is 0x62
\* and the number of bytes after the first three equals N; when the first DID
\* byte is not 0x22 the verdict is FAIL for every N and every actual response.
C12_LengthCheck ==
    Returned /\ Received /\ input.expected_response.k = "ln" =>
        /\ IsLength(input.expected_response.s) =>
               (output.ret.result = "PASS" <=>
                    /\ MainDid = 34
                    /\ FirstActual = 98
                    /\ BytesAfterThree = DigitsVal(input.expected_response.s, 10, 0))
        /\ MainDid # 34 => output.ret.result = "FAIL"
        /\ output.ret.result \in {"PASS", "FAIL"}

\* C12 witness: did 0x22, actual [0x62, 0xAA, 0xBB, 0x01, 0x02, 0x03] and
\* ln(3) gave PASS.
C12_Witness ==
    /\ Returned
    /\ input.did = DInt(34)
    /\ input.actual_response = DList(<<98, 170, 187, 1, 2, 3>>)
    /\ input.expected_response = DLn(<<"3">>)
    /\ output.ret.result = "PASS"
    /\ output.ret.responsetype = "ln"

\* C13: for expected response "positive" and a received actual response, the
\* verdict is PASS if and only if actual[0] equals the first DID byte plus 0x40,
\* the sum taken without wrap-around; otherwise it is FAIL.
C13_PositiveOffset ==
    Returned /\ Received /\ input.expected_response = DStr("positive") =>
        /\ output.ret.responsetype = "positive"
        /\ output.ret.result = IF MainDid # -1 /\ FirstActual = MainDid + 64
                               THEN "PASS" ELSE "FAIL"

\* C13 witness: did 0xC0 with actual [0x00], the byte a wrapped sum would
\* give, was answered with FAIL.
C13_Witness ==
    /\ Returned
    /\ input.did = DInt(192)
    /\ input.actual_response = DList(<<0>>)
    /\ input.expected_response = DStr("positive")
    /\ output.ret.result = "FAIL"

\* an expected response that is none of "none", "ln(N)", a list, "positive"
\* and "negative"
Unrecognised(e) ==
    /\ e.k \notin {"ln", "list"}
    /\ e \notin {DStr("none"), DStr("positive"), DStr("negative")}

\* C14: for a received actual response and an unrecognised expected response
\* the call raises no error and returns a verdict with result FAIL,
\* responsetype "unknown" and a non-empty reason (stated for calls with an
\* active report and a name, where the emission itself succeeds).
C14_UnknownFormatFails ==
    /\ pc = "done"
    /\ report.active
    /\ input.name # DNone
    /\ Received
    /\ Unrecognised(input.expected_response)
    => /\ ~output.raised
       /\ output.ret.result = "FAIL"
       /\ output.ret.responsetype = "unknown"
       /\ output.ret.reason.msg # ""

\* the classification reaches the reporting block: it does not raise
ReachesReporting == input.expected_response = DStr("none") \/ Truthy(input.actual_response)

\* C15: when the report sink fails at the emission of the diagnostic group
\* (here: no active report is set), the call still returns normally, with the
\* verdict the classification gives.
C15_SinkFailureRecovered ==
    pc = "done" /\ ~report.active /\ ReachesReporting =>
        /\ ~output.raised
        /\ output.ret.result \in {"PASS", "FAIL", "NONE"}

\* a diagnostic group record was emitted, and nothing else
EmittedGroup ==
    /\ Len(report.lines) = 1
    /\ report.lines[1].category = "GROUP"
    /\ report.tables = <<>>

\* a fallback table was emitted
EmittedFallback == Len(report.tables) = 1

\* C16: every call, whatever its inputs and outcome, has emitted exactly one
\* diagnostic record (or one fallback table) when it ends.
C16_OneRecordPerCall == pc = "done" => EmittedGroup \/ EmittedFallback

----------------------------------------------------------------------------
(* SpecCodec: format_dtc_code, parse_to_int_or_hex and _to_int applied to one value *)

\* 0x101, 0xFFFFF, 0x100000 and 0x123456: around the width of five digits
WideValues == {257, 1048575, 1048576, 1193046}

CodecValues == (0..MaxCodeValue) \cup WideValues

\* an input of kind "int", "dec" or "bin": the integer n in that encoding
NumberInput(kind, value, n) == [kind |-> kind, value |-> value, n |-> n, digits |-> <<>>]

\* an input of kind "hex": a "0x" string written with the hex digits `digits`
\* (lower the same digits in lower case), or of kind "malformed"
TextInput(kind, value, digits) == [kind |-> kind, value |-> value, n |-> 0, digits |-> digits]

\* hex digit strings as supplied, and the same digits in lower case
HexDigitCases ==
    {<< <<>>, <<>> >>,
     << <<"1">>, <<"1">> >>,
     << <<"0", "A">>, <<"0", "a">> >>,
     << <<"0", "a">>, <<"0", "a">> >>,
     << <<"F", "0", "F">>, <<"f", "0", "f">> >>,
     << <<"0", "0", "1", "0", "1">>, <<"0", "0", "1", "0", "1">> >>,
     << <<"1", "2", "3", "4", "5", "6">>, <<"1", "2", "3", "4", "5", "6">> >>,
     << <<"0", "0", "0", "0", "0", "0", "0", "1">>, <<"0", "0", "0", "0", "0", "0", "0", "1">> >>}

\* the digits with a "_" separator after the first one
Separated(d) == IF Len(d) > 1 THEN <<Head(d), "_">> \o Tail(d) ELSE d

\* the ways a "0x" string is written: plain, "0X", with a separator, with blanks around
HexSpellings(d) ==
    {PStr(<<"0", "x">> \o d), PStr(<<"0", "X">> \o d), PStr(<<"0", "x">> \o Separated(d)),
     PStr(<<" ", "0", "x">> \o d \o <<" ">>)}

\* strings that are no numeric literal
MalformedStrings ==
    {<<"0", "x", "g">>, <<"0", "x", "z", "z">>, <<"1", "2", "z">>, <<"z", "z">>,
     <<"0", "b", "1", "0", "2">>, <<"0", "b">>, <<"-">>, <<"1", " ", "2">>}

CodecInputs ==
    {NumberInput("int", PInt(n), n) : n \in CodecValues \cup {0 - m : m \in CodecValues}}
        \cup {NumberInput("dec", EncDec(n), n) : n \in CodecValues}
        \cup {NumberInput("bin", EncBin(n), n) : n \in CodecValues}
        \cup UNION {{TextInput("hex", v, c[2]) : v \in HexSpellings(c[1])} : c \in HexDigitCases}
        \cup {TextInput("malformed", PStr(s), <<>>) : s \in MalformedStrings}

\* _to_int of what format_dtc_code returned
DecodeFormatted(f) == IF f = Raise THEN Raise ELSE _to_int(f)

\* the outcomes of the three functions for one value, and the decoded format
CodecResult(f, p, d) ==
    [formatted |-> f, parsed |-> p, decoded |-> d, back |-> DecodeFormatted(f)]

InitCodec ==
    /\ pc = "start"
    /\ input \in CodecInputs
    /\ output = NoOutput
    /\ report = NewReport(FALSE)

ApplyCodec ==
    /\ pc = "start"
    /\ output' = CodecResult(format_dtc_code(input.value), parse_to_int_or_hex(input.value),
                             _to_int(input.value))
    /\ pc' = "done"
    /\ UNCHANGED <<input, report>>

NextCodec == ApplyCodec

SpecCodec == InitCodec /\ [][NextCodec]_vars

\* o is "0x" followed by lower-case hex digits that denote n
HexOf(o, n) ==
    /\ o # Raise
    /\ IsStr(o)
    /\ StartsWith(o.s, <<"0", "x">>)
    /\ Len(o.s) > 2
    /\ \A i \in 3..Len(o.s) : o.s[i] \in Range(HexChars)
    /\ DigitsVal(From(o.s, 2), 16, 0) = n

\* the number of hex digits o has after "0x"
DigitCount(o) == Len(o.s) - 2

\* C17: for a non-negative integer n given as an integer, a decimal string or
\* a "0b" string, format_dtc_code returns "0x" and the lower-case hex digits of
\* n, padded with zeros to exactly 5 digits when n <= 0xFFFFF and with the
\* minimal number of digits otherwise.
C17_FormatWidth ==
    pc = "done" /\ input.kind \in {"int", "dec", "bin"} /\ input.n >= 0 =>
        /\ HexOf(output.formatted, input.n)
        /\ input.n <= 1048575 => DigitCount(output.formatted) = 5
        /\ input.n > 1048575 =>
               /\ DigitCount(output.formatted) > 5
               /\ output.formatted.s[3] # "0"

\* C17 witness: 0x101 given as a decimal string came out as "0x00101".
C17_Witness ==
    /\ pc = "done"
    /\ input.kind = "dec"
    /\ input.n = 257
    /\ output.formatted = PStr(<<"0", "x", "0", "0", "1", "0", "1">>)

\* C18: for a "0x" hex string format_dtc_code returns "0x" and exactly the
\* supplied digits in lower case, separators removed, the digit count kept;
\* only an empty digit string becomes "0x00".
C18_HexWidthKept ==
    pc = "done" /\ input.kind = "hex" =>
        output.formatted = PStr(<<"0", "x">> \o (IF input.digits = <<>> THEN <<"0", "0">>
                                                  ELSE input.digits))

\* C18 witness: "0x0A" came out as "0x0a".
C18_Witness ==
    /\ pc = "done"
    /\ input.value = PStr(<<"0", "x", "0", "A">>)
    /\ output.formatted = PStr(<<"0", "x", "0", "a">>)

\* C19: for every integer n, _to_int of format_dtc_code(n) is n again.
C19_RoundTrip ==
    pc = "done" /\ input.kind = "int" => output.back = PInt(input.n)

\* C19 witness: a negative integer, formatted with its sign, was decoded to itself.
C19_Witness ==
    /\ pc = "done"
    /\ input.kind = "int"
    /\ input.n = 0 - 10
    /\ output.formatted = PStr(<<"0", "x", "-", "0", "0", "0", "a">>)
    /\ output.back = PInt(0 - 10)

\* C20: given a string that is no numeric literal, format_dtc_code,
\* parse_to_int_or_hex and _to_int all fail with an error; none returns a value.
C20_MalformedRejected ==
    pc = "done" /\ input.kind = "malformed" =>
        /\ output.formatted = Raise
        /\ output.parsed = Raise
        /\ output.decoded = Raise

----------------------------------------------------------------------------
(* Further claims on build_comprehensive_dtc_results_table (SpecTable), on  *)
(* parse_to_int_or_hex (SpecCodec) and on evaluate_dtc_block (Spec)         *)

\* C21: for an observed list in which a record has an unparseable code the
\* builder does not raise, and every observed record gets its row.
C21_EvaluationTotal ==
    pc = "done" /\ input.dut_dtcs # <<>> =>
        /\ ~output.raised
        /\ Len(output.ret) >= Len(input.dut_dtcs)

\* C22: for a non-negative integer given as an integer, a decimal string or a
\* "0b" string, parse_to_int_or_hex returns "0x" and at least two lower-case
\* hex digits that denote it; the decimal string "10" comes out as "0x0a".
C22_StatusFormat ==
    pc = "done" /\ input.kind \in {"int", "dec", "bin"} /\ input.n >= 0 =>
        /\ HexOf(output.parsed, input.n)
        /\ DigitCount(output.parsed) >= 2

\* the rules of the call, the muted ones as configured
RuleCount == Len(input.allowed_dtcs) + Len(input.expected_dtcs) + Len(input.muted_config)

\* C23: in every call with a report, the empty observed list included, the
\* report receives the rule summary table (columns Type, DTC, Status, a row per
\* rule), then the comprehensive table, then the overall status step, each once.
C23_EmissionOrder ==
    pc = "done" /\ report.active =>
        /\ Len(report.lines) = 3
        /\ Len(report.tables) = 2
        /\ report.lines[1].category = "TABLE"
        /\ report.lines[1].table_idx = 0
        /\ report.tables[1].column_header = <<"Type", "DTC", "Status">>
        /\ Len(report.tables[1].data) = RuleCount
        /\ report.lines[2].category = "TABLE"
        /\ report.lines[2].table_idx = 1
        /\ report.tables[2].column_header = ComprehensiveHeader
        /\ report.lines[3].category = "STEP"

\* an observed DTC whose row is of type Expected has the code of expected rule j
ObservedAsExpected(j) ==
    \E i \in 1..Len(input.dut_dtcs) :
        /\ RowType(output.ret[i]) = STATUS_EXPECTED
        /\ SameCode(input.dut_dtcs[i], input.expected_dtcs[j])

\* the expected rules no observed DTC was matched to
UnmatchedExpected == {j \in 1..Len(input.expected_dtcs) : ~ObservedAsExpected(j)}

\* C24: the table holds one Present row per observed DTC, in observed order,
\* followed by one Not Present row per Expected rule that had no matching
\* observed DTC; the row count is the sum of the two numbers.
C24_RowStructure ==
    TableDone =>
        /\ Len(output.ret) = Len(input.dut_dtcs) + Cardinality(UnmatchedExpected)
        /\ \A i \in 1..Len(output.ret) :
               RowPresence(output.ret[i]) =
                   (IF i <= Len(input.dut_dtcs) THEN "Present" ELSE "Not Present")
        /\ \A i \in 1..Len(input.dut_dtcs) :
               RowCode(output.ret[i]) = format_dtc_code(PStr(input.dut_dtcs[i].DTC)).s

\* the rules of the call in scan order: Allowed, Muted, Expected
ScannedRules == rule_sets_of(input.allowed_dtcs, input.muted_dtcs, input.expected_dtcs)

\* index of the first rule, in scan order, with the code of d; 0 when there is none
FirstWithCode(d) == FirstOf({k \in 1..Len(ScannedRules) : SameCode(d, ScannedRules[k][2])})

\* C26: the first rule with the code of an observed DTC, scanning Allowed, Muted,
\* Expected in declared order, alone decides its row: the row has that rule's
\* category, its result is "fail" when that rule's status does not match,
\* whatever later rules say, and the DTC has no second row.
C26_FirstRuleDecides ==
    TableDone =>
        /\ \A i \in 1..Len(input.dut_dtcs) :
               FirstWithCode(input.dut_dtcs[i]) # 0 =>
                   /\ RowType(output.ret[i]) = ScannedRules[FirstWithCode(input.dut_dtcs[i])][1]
                   /\ ~StatusAgrees(input.dut_dtcs[i].status,
                                    ScannedRules[FirstWithCode(input.dut_dtcs[i])][2].status)
                          => RowResult(output.ret[i]) = "fail"
        /\ Cardinality({r \in 1..Len(output.ret) : RowPresence(output.ret[r]) = "Present"})
               = Len(input.dut_dtcs)

\* the table has a Not Present row for expected rule j
ReportedMissing(j) ==
    \E r \in (Len(input.dut_dtcs) + 1)..Len(output.ret) :
        output.ret[r] = MissingRow(input.expected_dtcs[j])

\* C27: an Expected rule gets a Not Present row if and only if no observed DTC
\* was classified under Expected with that rule's code, whether or not the
\* status matched; a DTC captured by an Allowed or Muted rule does not count.
C27_MissingIffNotClassified ==
    TableDone =>
        \A j \in 1..Len(input.expected_dtcs) : ReportedMissing(j) <=> ~ObservedAsExpected(j)

----------------------------------------------------------------------------
(* SpecDtcStatus: two DTCStatus objects built and compared *)

\* len(DTCStatus.BIT_NAMES)
BitCount == 8

\* (value >> i) & 1
BitAt(value, i) == (value \div (2 ^ i)) % 2

\* DTCStatus.__init__ when "any" is given: the value "any", every flag None
AnyStatus(ident) ==
    [raised |-> FALSE, ident |-> ident, value |-> STATUS_ANY,
     flags |-> [i \in 1..BitCount |-> PNone]]

\* DTCStatus.__init__ with the integer v kept as the value: flag i (counted
\* from 0, kept at position i + 1) is bit i of v; Raise when int() rejected
\* the string
ConcreteStatus(v, ident) ==
    IF v = Raise THEN [raised |-> TRUE, ident |-> ident, value |-> Raise, flags |-> <<>>]
    ELSE [raised |-> FALSE, ident |-> ident, value |-> v,
          flags |-> [i \in 1..BitCount |-> PInt(BitAt(v.n, i - 1))]]

\* DTCStatus(value); ident tells the objects of one state apart
DTCStatus(value, ident) ==
    IF IsStr(value) /\ Lower(value.s) = ANY THEN AnyStatus(ident)
    ELSE IF IsStr(value)
         THEN ConcreteStatus(PyInt(value.s, IF StartsWith(value.s, <<"0", "x">>) THEN 16 ELSE 10),
                             ident)
         ELSE ConcreteStatus(value, ident)

\* DTCStatus.__repr__: "any", or f"0x{value:02X}".lower()
StatusRepr(obj) ==
    IF obj.value = STATUS_ANY THEN STATUS_ANY ELSE FormatStatusInt(obj.value.n)

\* a == b for two DTCStatus objects: the class defines no __eq__, so the
\* comparison is the identity of the objects
StatusEq(a, b) == a.ident = b.ident

\* what is handed to DTCStatus: "any" in two spellings, and values as an
\* integer, a decimal string and a "0x" string
StatusObjValues == StatusValues \cup {255, 256}

StatusObjInputs ==
    {STATUS_ANY, PStr(<<"A", "N", "Y">>)}
        \cup {EncInt(n) : n \in StatusObjValues}
        \cup {EncDec(n) : n \in StatusObjValues}
        \cup {EncHex(n) : n \in StatusObjValues}
        \cup {PStr(<<"0", "x", "g">>)}

\* the two objects, what they display as, and the outcome of first == second
StatusPair(a, b) ==
    IF a.raised \/ b.raised THEN [raised |-> TRUE, ret |-> <<>>]
    ELSE [raised |-> FALSE,
          ret |-> [first |-> a, second |-> b, first_repr |-> StatusRepr(a),
                   second_repr |-> StatusRepr(b), equal |-> StatusEq(a, b)]]

InitDtcStatus ==
    /\ pc = "start"
    /\ input \in [first : StatusObjInputs, second : StatusObjInputs]
    /\ output = NoOutput
    /\ report = NewReport(FALSE)

BuildStatuses ==
    /\ pc = "start"
    /\ output' = StatusPair(DTCStatus(input.first, 1), DTCStatus(input.second, 2))
    /\ pc' = "done"
    /\ UNCHANGED <<input, report>>

NextDtcStatus == BuildStatuses

SpecDtcStatus == InitDtcStatus /\ [][NextDtcStatus]_vars

\* the status is the sentinel "any"
IsAnyStatus(obj) == obj.value = STATUS_ANY

\* C25: a DTCStatus built from "any" has its 8 named flags None, displays as
\* "any" and compares equal to every concrete status; built from a concrete
\* value v its flag i is bit i of v, for TestFailed = bit 0 up to
\* warningIndicatorRequested = bit 7, and it displays as "0x" followed by at
\* least 2 lower-case hex digits that denote v
C25_StatusBitfield ==
    (pc = "done" /\ ~output.raised) =>
        LET a == output.ret.first
            b == output.ret.second
            v == NumValue(input.first)
        IN  /\ IsAnyStatus(a) =>
                /\ Len(a.flags) = BitCount
                /\ \A i \in 1..BitCount : a.flags[i] = PNone
                /\ output.ret.first_repr = STATUS_ANY
                /\ ~IsAnyStatus(b) => output.ret.equal
            /\ ~IsAnyStatus(a) =>
                /\ Len(a.flags) = BitCount
                /\ \A i \in 0..(BitCount - 1) : a.flags[i + 1] = PInt((v \div (2 ^ i)) % 2)
                /\ HexOf(output.ret.first_repr, v)
                /\ DigitCount(output.ret.first_repr) >= 2

----------------------------------------------------------------------------
(* SpecNames: append_incremental_info called once per completed test, on the *)
(* info.js the call before left                                            *)

\* the most calls of append_incremental_info in one report directory
MaxCalls == 3

\* sanitize_name: spaces become underscores
sanitize_name(name) == [i \in 1..Len(name) |-> IF name[i] = " " THEN "_" ELSE name[i]]

\* x in names
InList(x, names) == \E i \in 1..Len(names) : names[i] = x

\* names.index(x), counted from 1 (x is in names)
IndexOf(names, x) == CHOOSE i \in 1..Len(names) : names[i] = x /\ \A j \in 1..(i - 1) : names[j] # x

\* names.remove(x) (x is in names): the first occurrence is dropped
RemoveFirst(names, x) ==
    SubSeq(names, 1, IndexOf(names, x) - 1) \o SubSeq(names, IndexOf(names, x) + 1, Len(names))

\* names.insert(k, x) for the position k counted from 0, 0 <= k <= len(names)
InsertAt(names, k, x) == SubSeq(names, 1, k) \o <<x>> \o SubSeq(names, k + 1, Len(names))

TestPreparation ==
    <<"T", "e", "s", "t", "P", "r", "e", "p", "a", "r", "a", "t", "i", "o",
    "n">>

TestDeinitialization ==
    <<"T", "e", "s", "t", "D", "e", "i", "n", "i", "t", "i", "a", "l", "i", "z",
    "a", "t", "i", "o", "n">>

LowerPreparation ==
    <<"t", "e", "s", "t", "p", "r", "e", "p", "a", "r", "a", "t", "i", "o",
    "n">>

LowerDeinitialization ==
    <<"t", "e", "s", "t", "d", "e", "i", "n", "i", "t", "i", "a", "l", "i", "z",
    "a", "t", "i", "o", "n">>

\* info["testNames"] once the name is removed if it was there
WithoutName(testNames, name) ==
    IF InList(name, testNames) THEN RemoveFirst(testNames, name) ELSE testNames

\* the placement of the name in the list it is no longer part of: a
\* preparation name at the front, a deinitialization name at the end, any
\* other name right after "TestPreparation" if that is in the list, else at
\* the end
PlaceName(kept, name, test_name_lower) ==
    IF test_name_lower = LowerPreparation THEN InsertAt(kept, 0, name)
    ELSE IF test_name_lower = LowerDeinitialization THEN Append(kept, name)
    ELSE IF InList(TestPreparation, kept)
         THEN InsertAt(kept, IndexOf(kept, TestPreparation), name)
         ELSE Append(kept, name)

\* the testNames patch of append_incremental_info
TestNamesAfter(testNames, name) == PlaceName(WithoutName(testNames, name), name, Lower(name))

\* status.upper() of a test status
UpperStatus(status) ==
    CASE status = "pass" -> "PASS" [] status = "fail" -> "FAIL"
      [] status = "error" -> "ERROR" [] status = "none" -> "NONE" [] OTHER -> status

\* sum(1 for t in test_cases if t.get("status", "").upper() == word)
RECURSIVE CountStatus(_, _)
CountStatus(statuses, word) ==
    IF statuses = <<>> THEN 0
    ELSE (IF UpperStatus(Head(statuses)) = word THEN 1 ELSE 0) + CountStatus(Tail(statuses), word)

\* fmt_stat: the count and int(count / total * 100), 0 for no test
FmtStat(count, total) ==
    [count |-> count, percent |-> IF total # 0 THEN (count * 100) \div total ELSE 0]

\* the overall verdict of fill_stats from the four counts and the total
OverallOf(pass_count, fail_count, error_count, none_count, total) ==
    IF error_count > 0 THEN "ERROR"
    ELSE IF fail_count > 0 THEN "FAIL"
    ELSE IF pass_count > 0 /\ pass_count = pass_count + fail_count + error_count THEN "PASS"
    ELSE IF none_count = total THEN "NONE"
    ELSE "PARTIAL"

\* the statistics of fill_stats from the counts (date, time and duration of
\* the suite are left out)
StatsOf(pass_count, fail_count, error_count, none_count, total) ==
    [all |-> FmtStat(total, total), pass |-> FmtStat(pass_count, total),
     fail |-> FmtStat(fail_count, total), error |-> FmtStat(error_count, total),
     none |-> none_count,
     overall |-> OverallOf(pass_count, fail_count, error_count, none_count, total)]

\* fill_stats over the statuses of the test cases
fill_stats(statuses) ==
    StatsOf(CountStatus(statuses, "PASS"), CountStatus(statuses, "FAIL"),
            CountStatus(statuses, "ERROR"), CountStatus(statuses, "NONE"), Len(statuses))

\* info["reportData"][name] = {..., "status": status}
WithReportData(reportData, name, status) ==
    [n \in (DOMAIN reportData) \cup {name} |-> IF n = name THEN status ELSE reportData[n]]

\* all_cases: the reportData.js of every name in testNames, each written by
\* the call that reported the name and holding the status reportData holds
AllCases(testNames, reportData) == [i \in 1..Len(testNames) |-> reportData[testNames[i]]]

\* the info.js a call leaves, from the names and the report data it computed
InfoOf(testNames, reportData) ==
    [testNames |-> testNames, reportData |-> reportData,
     statistics |-> fill_stats(AllCases(testNames, reportData))]

\* append_incremental_info for a test case with lines and the given status
append_incremental_info(info, sanitized_test_name, status) ==
    InfoOf(TestNamesAfter(info.testNames, sanitized_test_name),
           WithReportData(info.reportData, sanitized_test_name, status))

\* info.js is not there: testNames [], reportData {}, statistics {}
NewInfo == [testNames |-> <<>>, reportData |-> <<>>, statistics |-> <<>>]

\* test names: the two special names, a preparation name in another case,
\* and two names of main tests, one with a space
TestNameInputs ==
    {TestPreparation, TestDeinitialization, LowerPreparation,
     <<"T", "e", "s", "t", "A">>, <<"T", "e", "s", "t", " ", "B">>}

\* the status a completed test case carries
CaseStatusInputs == {"PASS", "FAIL", "NONE"}

InitNames ==
    /\ pc = "start"
    /\ input = <<>>
    /\ output = NewInfo
    /\ report = NewReport(FALSE)

\* one call; input keeps the calls made so far
AppendIncrementalInfo ==
    /\ Len(input) < MaxCalls
    /\ \E test_name \in TestNameInputs, status \in CaseStatusInputs :
        /\ input' = Append(input, [test_name |-> test_name, status |-> status])
        /\ output' = append_incremental_info(output, sanitize_name(test_name), status)
    /\ pc' = "done"
    /\ UNCHANGED report

NextNames == AppendIncrementalInfo

SpecNames == InitNames /\ [][NextNames]_vars

\* C28: after any sequence of calls, with repeated names and in any order of
\* arrival, testNames holds every name at most once, "TestPreparation" is
\* its first entry if it is in the list, and "TestDeinitialization" is its
\* last entry if it is in the list
C28_NamesOrdered ==
    LET names == output.testNames
    IN  /\ \A i, j \in 1..Len(names) : i # j => names[i] # names[j]
        /\ InList(TestPreparation, names) => names[1] = TestPreparation
        /\ InList(TestDeinitialization, names) => names[Len(names)] = TestDeinitialization

----------------------------------------------------------------------------
(* SpecOverall: the overall status of the completed tests, as             *)
(* get_overall_report_status and as fill_stats compute it                 *)

\* the most completed tests
MaxTests == 3

\* all(status == "PASS" for status in statuses if status != "NONE")
AllRunPassed(statuses) ==
    \A i \in 1..Len(statuses) : statuses[i] # "NONE" => statuses[i] = "PASS"

\* the verdict of get_overall_report_status from the upper-cased statuses
OverallFrom(statuses) ==
    IF \E i \in 1..Len(statuses) : statuses[i] = "ERROR" THEN "ERROR"
    ELSE IF \E i \in 1..Len(statuses) : statuses[i] = "FAIL" THEN "FAIL"
    ELSE IF AllRunPassed(statuses) THEN "PASS"
    ELSE IF \A i \in 1..Len(statuses) : statuses[i] = "NONE" THEN "NONE"
    ELSE "PARTIAL"

\* get_overall_report_status with _completed_tests carrying the statuses
get_overall_report_status(completed) ==
    OverallFrom([i \in 1..Len(completed) |-> UpperStatus(completed[i])])

\* the statuses of completed tests: the four case statuses in upper case,
\* one in lower case, and one that is none of them
CompletedStatusInputs == {"PASS", "FAIL", "ERROR", "NONE", "pass", "SKIPPED"}

InitOverall ==
    /\ pc = "start"
    /\ input \in SeqsUpTo(CompletedStatusInputs, MaxTests)
    /\ output = NoOutput
    /\ report = NewReport(FALSE)

\* get_overall_report_status() and fill_stats({}, _completed_tests, ...) of
\* export_suite_report on the same completed tests
ReportOverall ==
    /\ pc = "start"
    /\ output' = [raised |-> FALSE,
                  ret |-> [overall |-> get_overall_report_status(input),
                           statistics |-> fill_stats(input)]]
    /\ pc' = "done"
    /\ UNCHANGED <<input, report>>

NextOverall == ReportOverall

SpecOverall == InitOverall /\ [][NextOverall]_vars

\* the statuses PASS, FAIL, ERROR and NONE
CaseStatuses == {"PASS", "FAIL", "ERROR", "NONE"}

\* C30: for completed tests with statuses among PASS, FAIL, ERROR and NONE,
\* get_overall_report_status returns "NONE" when every status is NONE, and
\* it returns the value fill_stats puts in the "overall" field for the
\* same tests
C30_OverallAgrees ==
    (pc = "done" /\ \A i \in 1..Len(input) : input[i] \in CaseStatuses) =>
        /\ (\A i \in 1..Len(input) : input[i] = "NONE") => output.ret.overall = "NONE"
        /\ output.ret.overall = output.ret.statistics.overall

----------------------------------------------------------------------------
(* SpecReport: a TestReport taking add_step, add_table,                    *)
(* add_diagnostic_tx_rx_group and start_group blocks in any order          *)

\* the most entries (steps, tables, diagnostic groups, groups) of one report
MaxEntries == 3

\* the deepest nesting of start_group blocks
MaxDepth == 2

\* one row of a table with a Result column
ResultRow(step, result) == <<step, result>>

\* a table with the columns Step and Result
ResultTable(name, data) == [name |-> name, column_header |-> <<"Step", "Result">>, data |-> data]

\* the tables handed to add_table: one that passes, one that fails in its
\* second row, one whose only result is neither pass, fail nor none
ReportTableInputs ==
    {ResultTable("passing", <<ResultRow("a", "PASS")>>),
     ResultTable("failing", <<ResultRow("a", "NONE"), ResultRow("b", "FAIL")>>),
     ResultTable("other", <<ResultRow("a", "ERROR")>>)}

\* the operations that record an entry, among the operations made so far
Recording(ops) == SelectSeq(ops, LAMBDA o : o.op # "end_group")

InitReport ==
    /\ pc = "start"
    /\ input = <<>>
    /\ output = NoOutput
    /\ report = NewReport(TRUE)

\* report.add_step(status, comment); input keeps the operations made so far
AddStep ==
    /\ Len(Recording(input)) < MaxEntries
    /\ \E status \in CaseStatuses :
        /\ input' = Append(input, [op |-> "add_step", status |-> status])
        /\ report' = ReportAddStep(report, status, "step")
    /\ pc' = "done"
    /\ UNCHANGED output

\* report.add_table(name, data, column_header)
AddTable ==
    /\ Len(Recording(input)) < MaxEntries
    /\ \E table \in ReportTableInputs :
        /\ input' = Append(input, [op |-> "add_table", table |-> table])
        /\ report' = ReportAddTable(report, table)
    /\ pc' = "done"
    /\ UNCHANGED output

\* report.add_diagnostic_tx_rx_group(name, tx_bytes, rx_bytes, expected, status)
AddDiagnosticGroup ==
    /\ Len(Recording(input)) < MaxEntries
    /\ \E status \in CaseStatuses :
        /\ input' = Append(input, [op |-> "add_diagnostic_tx_rx_group", status |-> status])
        /\ report' = ReportAddDiagnosticGroup(report, "did", <<"22">>, <<"62">>, <<"62">>, status)
    /\ pc' = "done"
    /\ UNCHANGED output

\* a with report.start_group(title) block is entered
EnterGroup ==
    /\ Len(Recording(input)) < MaxEntries
    /\ Len(report.group_stack) < MaxDepth
    /\ input' = Append(input, [op |-> "start_group"])
    /\ report' = StartGroup(report, "group", "")
    /\ pc' = "done"
    /\ UNCHANGED output

\* the innermost start_group block is left
ExitGroup ==
    /\ report.group_stack # <<>>
    /\ input' = Append(input, [op |-> "end_group"])
    /\ report' = EndGroup(report)
    /\ pc' = "done"
    /\ UNCHANGED output

NextReport == AddStep \/ AddTable \/ AddDiagnosticGroup \/ EnterGroup \/ ExitGroup

SpecReport == InitReport /\ [][NextReport]_vars

\* what a table counts as: FAIL with a result that reads FAIL, else PASS
\* with a result that reads PASS, else NONE
TableVerdict(table) ==
    LET results == {table.data[i][2] : i \in 1..Len(table.data)}
    IN  IF "FAIL" \in results THEN "FAIL" ELSE IF "PASS" \in results THEN "PASS" ELSE "NONE"

\* the statuses of the steps, tables and diagnostic groups recorded by the
\* operations, at whatever depth they were made
RecordedStatuses(ops) ==
    {ops[i].status : i \in {j \in 1..Len(ops) :
                              ops[j].op \in {"add_step", "add_diagnostic_tx_rx_group"}}}
        \cup {TableVerdict(ops[i].table) : i \in {j \in 1..Len(ops) : ops[j].op = "add_table"}}

\* the highest of the statuses in the order ERROR > FAIL > PASS > NONE
HighestStatus(statuses) ==
    CHOOSE s \in CaseStatuses :
        /\ s \in statuses \cup {"NONE"}
        /\ \A t \in statuses : GroupPriority(t) <= GroupPriority(s)

\* C29: after any sequence of add_step, add_table,
\* add_diagnostic_tx_rx_group and start_group enter and exit operations,
\* whenever no group is open, report.status is the highest status, in the
\* order ERROR > FAIL > PASS > NONE, of all the steps, tables and diagnostic
\* groups recorded so far at any nesting depth
C29_StatusIsHighest ==
    report.group_stack = <<>> => report.status = HighestStatus(RecordedStatuses(input))

\* C29 witness: no group is open, a step that failed lies in a group inside
\* a group, both closed, and the report status is FAIL
C29_Witness ==
    /\ report.group_stack = <<>>
    /\ report.status = "FAIL"
    /\ \E i \in 1..Len(report.lines) :
        /\ report.lines[i].category = "GROUP"
        /\ \E j \in 1..Len(report.lines[i].children) :
            /\ report.lines[i].children[j].category = "GROUP"
            /\ \E k \in 1..Len(report.lines[i].children[j].children) :
                /\ report.lines[i].children[j].children[k].category = "STEP"
                /\ report.lines[i].children[j].children[k].status = "FAIL"

====
